---------------------------- MODULE Spec2Model ----------------------------
(***************************************************************************)
(* A model of rdflib's logical graph layer (src/rdflib/graph.py):          *)
(*   - BatchAddGraph, the write-buffering wrapper (specification           *)
(*     SpecBatch);                                                         *)
(*   - Graph / QuotedGraph over a context-keyed Store: add, addN, remove,  *)
(*     triples, value and the set operators (specification Spec), the      *)
(*     prefix bindings (SpecNamespaces), the traversals (SpecWalk) and the *)
(*     concise bounded description (SpecCbd).                              *)
(* Python objects are records of their fields; a method is an operator     *)
(* from the object (and its arguments) to the object after the call.       *)
(***************************************************************************)
EXTENDS Integers, Sequences, FiniteSets, TLC

VARIABLES
    bag,         \* the BatchAddGraph object: graph, batch_size, batch, count
    addN_calls,  \* the batches the wrapped graph's addN has been called with
    scope,       \* position w.r.t. the with-statement: "out", "in", "ok", "exc"
    hist,        \* history of the wrapper: last operation, the state before it, counters,
                 \* the items added in the with-scope
    store,       \* the backing Store: a set of quads <<s, p, o, context key>>
    contents,    \* per context, the triples its callers have put in and not removed
    last,        \* the last Graph operation: its arguments, result and the store before it
    namespaces,  \* per graph object, its prefix bindings: a set of <<prefix, namespace>>
    dataset      \* the Dataset object the callers hold: its attributes, its graphs

vars == <<bag, addN_calls, scope, hist, store, contents, last, namespaces, dataset>>

\* No Dataset object: none was constructed, or the constructor raised.
NoDataset == [exists |-> FALSE, attrs |-> {}, graphs |-> {}]

(***************************************************************************)
(* Bounds of the model.                                                    *)
(***************************************************************************)
MaxBatchSize == 3   \* batch_size ranges over MinBatchSize..MaxBatchSize
MaxAdds      == 5   \* calls to BatchAddGraph.add in one behaviour
MaxScopes    == 2   \* with-scopes entered in one behaviour
MaxResets    == 1   \* explicit calls to reset in one behaviour
MaxStore     == 3   \* quads held by the Store
MaxWalk      == 3   \* triples of a graph that is walked
MaxCbd       == 5   \* triples of a graph that is described
MaxDepth     == 5   \* nested calls before Python gives up with RecursionError

\* graph.py:2098  "if not batch_size or batch_size < 2: raise ValueError"
MinBatchSize == 2

(***************************************************************************)
(* BatchAddGraph                                                           *)
(***************************************************************************)
\* The wrapped graph, as the object that is appended to a 3-tuple.
WrappedGraph == "g"

\* What the caller passes to add: a triple, or a quad naming another graph.
BatchItems == { <<"a", "p", "b">>, <<"c", "p", "d", "h">> }

\* A reset that clears the buffer only.
BatchAddGraph_reset_keeps_count(self) ==
    [self EXCEPT !.batch = <<>>]

\* BatchAddGraph.reset: the buffer is emptied and the count set to zero.
BatchAddGraph_reset(self) ==
    [self EXCEPT !.batch = <<>>, !.count = 0]

\* BatchAddGraph.__init__ (batch_size >= 2 is checked by the constructor).
BatchAddGraph_init(graph, batch_size) ==
    BatchAddGraph_reset([graph |-> graph, graph_tuple |-> <<graph>>,
                         batch_size |-> batch_size,
                         batch |-> <<>>, count |-> 0])

\* An add that flushes only once the buffer is over capacity (> for >=).
BatchAddGraph_add_gt(self, calls, triple_or_quad) ==
    LET full    == Len(self.batch) > self.batch_size
        calls1  == IF full THEN Append(calls, self.batch) ELSE calls
        self1   == IF full THEN [self EXCEPT !.batch = <<>>] ELSE self
        self2   == [self1 EXCEPT !.count = @ + 1]
        quad    == IF Len(triple_or_quad) = 3
                   THEN triple_or_quad \o self.graph_tuple
                   ELSE triple_or_quad
    IN  [self |-> [self2 EXCEPT !.batch = Append(@, quad)], calls |-> calls1]

\* An add that appends first and flushes as soon as the buffer is full.
BatchAddGraph_add_eager(self, calls, triple_or_quad) ==
    LET quad    == IF Len(triple_or_quad) = 3
                   THEN triple_or_quad \o self.graph_tuple
                   ELSE triple_or_quad
        b1      == Append(self.batch, quad)
        full    == Len(b1) >= self.batch_size
    IN  [self  |-> [self EXCEPT !.count = @ + 1,
                                !.batch = IF full THEN <<>> ELSE b1],
         calls |-> IF full THEN Append(calls, b1) ELSE calls]

\* An add that starts the count again with every flush.
BatchAddGraph_add_count_per_batch(self, calls, triple_or_quad) ==
    LET full    == Len(self.batch) >= self.batch_size
        calls1  == IF full THEN Append(calls, self.batch) ELSE calls
        self1   == IF full THEN [self EXCEPT !.batch = <<>>, !.count = 0] ELSE self
        self2   == [self1 EXCEPT !.count = @ + 1]
        quad    == IF Len(triple_or_quad) = 3
                   THEN triple_or_quad \o self.graph_tuple
                   ELSE triple_or_quad
    IN  [self |-> [self2 EXCEPT !.batch = Append(@, quad)], calls |-> calls1]

\* An add that hands the full buffer on and goes on filling it.
BatchAddGraph_add_keeps_batch(self, calls, triple_or_quad) ==
    LET full    == Len(self.batch) >= self.batch_size
        calls1  == IF full THEN Append(calls, self.batch) ELSE calls
        self2   == [self EXCEPT !.count = @ + 1]
        quad    == IF Len(triple_or_quad) = 3
                   THEN triple_or_quad \o self.graph_tuple
                   ELSE triple_or_quad
    IN  [self |-> [self2 EXCEPT !.batch = Append(@, quad)], calls |-> calls1]

\* BatchAddGraph.add: flush when the buffer is full, then count and append.
\* The result is the object after the call and the calls made to graph.addN.
BatchAddGraph_add(self, calls, triple_or_quad) ==
    LET full    == Len(self.batch) >= self.batch_size
        calls1  == IF full THEN Append(calls, self.batch) ELSE calls
        self1   == IF full THEN [self EXCEPT !.batch = <<>>] ELSE self
        self2   == [self1 EXCEPT !.count = @ + 1]
        quad    == IF Len(triple_or_quad) = 3
                   THEN triple_or_quad \o self.graph_tuple
                   ELSE triple_or_quad
    IN  [self |-> [self2 EXCEPT !.batch = Append(@, quad)], calls |-> calls1]

\* BatchAddGraph.__enter__
BatchAddGraph_enter(self) == BatchAddGraph_reset(self)

\* An __exit__ that flushes whatever the outcome of the block.
BatchAddGraph_exit_always(self, calls, exc0) ==
    Append(calls, self.batch)

\* BatchAddGraph.__exit__(*exc): the buffer goes to graph.addN iff exc[0] is None.
\* The buffer itself is not cleared.
BatchAddGraph_exit(self, calls, exc0) ==
    IF exc0 = "None" THEN Append(calls, self.batch) ELSE calls

Snapshot == [batch |-> bag.batch, count |-> bag.count, calls |-> addN_calls]

GraphFrame == UNCHANGED <<store, contents, last, namespaces, dataset>>

BatchInit ==
    /\ \E n \in MinBatchSize..MaxBatchSize :
           bag = BatchAddGraph_init(WrappedGraph, n)
    /\ addN_calls = <<>>
    /\ scope = "out"
    /\ hist = [op |-> "init", pre |-> [batch |-> <<>>, count |-> 0, calls |-> <<>>],
               n_add |-> 0, k |-> 0, mark |-> 0, clean |-> TRUE,
               total |-> 0, scopes |-> 0, resets |-> 0,
               stale |-> 0, stale_delivered |-> FALSE, items |-> <<>>]

\* "with BatchAddGraph(...) as b:" is entered.
Enter ==
    /\ scope # "in"
    /\ hist.scopes < MaxScopes
    /\ bag' = BatchAddGraph_enter(bag)
    /\ scope' = "in"
    /\ hist' = [hist EXCEPT !.op = "enter", !.pre = Snapshot,
                            !.n_add = 0, !.k = 0, !.mark = Len(addN_calls),
                            !.clean = TRUE, !.scopes = @ + 1,
                            !.stale = 0, !.items = <<>>]
    /\ UNCHANGED addN_calls
    /\ GraphFrame

\* b.add(item), inside or outside a with-scope.
Add ==
    /\ hist.total < MaxAdds
    /\ \E item \in BatchItems :
         LET r == BatchAddGraph_add(bag, addN_calls, item)
             flushed == Len(r.calls) > Len(addN_calls)
         IN  /\ bag' = r.self
             /\ addN_calls' = r.calls
             /\ hist' = [hist EXCEPT !.op = "add", !.pre = Snapshot,
                             !.n_add = @ + 1, !.k = @ + 1, !.total = @ + 1,
                             !.stale = IF flushed THEN 0 ELSE @,
                             !.stale_delivered = @ \/ (flushed /\ hist.stale > 0),
                             !.items = IF scope = "in" THEN Append(@, item) ELSE <<>>]
    /\ UNCHANGED scope
    /\ GraphFrame

\* b.reset(), inside or outside a with-scope.
Reset ==
    /\ hist.resets < MaxResets
    /\ bag' = BatchAddGraph_reset(bag)
    /\ hist' = [hist EXCEPT !.op = "reset", !.pre = Snapshot,
                            !.n_add = 0, !.clean = FALSE, !.resets = @ + 1,
                            !.stale = 0,
                            !.items = IF scope = "in" THEN @ ELSE <<>>]
    /\ UNCHANGED <<addN_calls, scope>>
    /\ GraphFrame

\* The with-block ends normally: __exit__(None, None, None).
ExitOk ==
    /\ scope = "in"
    /\ addN_calls' = BatchAddGraph_exit(bag, addN_calls, "None")
    /\ scope' = "ok"
    /\ hist' = [hist EXCEPT !.op = "exit_ok", !.pre = Snapshot]
    /\ UNCHANGED bag
    /\ GraphFrame

\* The with-block raises: __exit__(type, value, traceback).
ExitExc ==
    /\ scope = "in"
    /\ addN_calls' = BatchAddGraph_exit(bag, addN_calls, "Exception")
    /\ scope' = "exc"
    /\ hist' = [hist EXCEPT !.op = "exit_exc", !.pre = Snapshot,
                            !.stale = Len(bag.batch), !.items = <<>>]
    /\ UNCHANGED bag
    /\ GraphFrame

GraphIdle ==
    /\ store = {}
    /\ contents = <<>>
    /\ last = [op |-> "init"]
    /\ namespaces = <<>>
    /\ dataset = NoDataset

BatchNext == Enter \/ Add \/ Reset \/ ExitOk \/ ExitExc

InitB == BatchInit /\ GraphIdle

SpecBatch == InitB /\ [][BatchNext]_vars

(***************************************************************************)
(* Terms, graphs and the Store                                             *)
(***************************************************************************)
\* Python's None: the wildcard of a pattern, an omitted argument.
None == "None"

\* rdflib terms (instances of Node), and a value that is not a Node.
Subjects   == {"a", "b"}
Predicates == {"p", "q"}
Objects    == {"a", "b"}
\* The nodes and predicates of the graphs that are walked, and the terms of
\* the graphs that are described.
WalkNodes  == {"a", "b", "c", "d"}
CbdTerms   == {"r", "o1", "o3", "x", "y", "p1", "p2",
               "rdf:subject", "rdf:predicate", "rdf:object"}

\* str operations of the term library: s.find(sub) and
\* s.rfind(sub) (0-based, -1 when sub does not occur).
Occurrences(s, sub) ==
    { i \in 0..(Len(s) - Len(sub)) : SubSeq(s, i + 1, i + Len(sub)) = sub }
Find(s, sub) ==
    IF Occurrences(s, sub) = {} THEN -1
    ELSE CHOOSE i \in Occurrences(s, sub) : \A j \in Occurrences(s, sub) : i <= j
RFind(s, sub) ==
    IF Occurrences(s, sub) = {} THEN -1
    ELSE CHOOSE i \in Occurrences(s, sub) : \A j \in Occurrences(s, sub) : j <= i

\* urlparse(uri).path: what follows scheme://netloc, the whole string when
\* there is no scheme.
UrlPath(uri) ==
    IF Find(uri, "://") = -1 THEN uri
    ELSE LET rest == SubSeq(uri, Find(uri, "://") + 4, Len(uri))
         IN  IF Find(rest, "/") = -1 THEN ""
             ELSE SubSeq(rest, Find(rest, "/") + 1, Len(rest))

\* The skolem paths and the authority of this system.
skolem_genid             == "/.well-known/genid/"
rdflib_skolem_genid      == "/.well-known/genid/rdflib/"
SKOLEM_DEFAULT_AUTHORITY == "https://rdflib.github.io"

\* BNode.skolemize(authority, basepath): the IRI authority + basepath + id,
\* with this system's authority and path when they are None.
BNode_skolemize(bnode, authority, basepath) ==
    (IF authority = None THEN SKOLEM_DEFAULT_AUTHORITY ELSE authority)
        \o (IF basepath = None THEN rdflib_skolem_genid ELSE basepath)
        \o bnode

\* RDFLibGenid._is_rdflib_skolem(uri) / Genid._is_external_skolem(uri): the
\* path of the IRI starts with the skolem path and holds it only there.
is_rdflib_skolem(uri) ==
    /\ Find(uri, "#") = -1 /\ Find(uri, "?") = -1 /\ Find(uri, ";") = -1
    /\ RFind(UrlPath(uri), rdflib_skolem_genid) = 0
is_external_skolem(uri) == RFind(UrlPath(uri), skolem_genid) = 0

\* RDFLibGenid(uri).de_skolemize(): the blank node whose id follows the
\* skolem path of this system.
RDFLibGenid_de_skolemize(uri) ==
    SubSeq(UrlPath(uri), Len(rdflib_skolem_genid) + 1, Len(UrlPath(uri)))

\* Genid(uri).de_skolemize(): a blank node of its own for the IRI, the same
\* one each time the IRI is met.
Genid_de_skolemize(uri) == "N" \o uri

\* The terms of the graphs that are skolemized: two blank nodes, a plain
\* IRI, the skolem IRIs of the blank nodes under the authorities and paths
\* the callers pass, a skolem IRI of another system, and the blank nodes
\* these IRIs stand for.
SkolemBNodes  == {"b", "x"}
Authorities   == {None, "http://ex.org"}
Basepaths     == {None, skolem_genid, "/custom/"}
OwnSkolem     == BNode_skolemize("b", None, None)
ForeignSkolem == "http://ex.org" \o skolem_genid \o "e"
SkolemIRIs ==
    { BNode_skolemize(n, au, bp) :
        n \in SkolemBNodes, au \in Authorities, bp \in Basepaths }
        \cup {ForeignSkolem}
GenidBNodes ==
    { Genid_de_skolemize(u) :
        u \in { v \in SkolemIRIs : ~is_rdflib_skolem(v) /\ is_external_skolem(v) } }
SkolemTerms == SkolemIRIs \cup GenidBNodes

Nodes      == Subjects \cup Predicates \cup Objects \cup WalkNodes \cup CbdTerms
                  \cup SkolemTerms
\* The terms that are blank nodes (type(t) is BNode).
BNodes     == {"b", "o1", "x", "y"} \cup GenidBNodes
NotANode   == "str"

\* isinstance(t, Node)
IsNode(t) == t \in Nodes

Triples  == Subjects \X Predicates \X Objects
Patterns == (Subjects \cup {None}) \X (Predicates \cup {None}) \X (Objects \cup {None})

\* Triples with one position that is not a Node (a plain str, or None).
MalformedTriples ==
    { <<NotANode, "p", "a">>, <<"a", None, "b">>, <<"b", "q", NotANode>> }

\* Graph objects.  An identifier is a term object: val is its value (what ==
\* and hash() see), obj the object itself (what "is" sees).  G1 and G2 are
\* two graphs over the same Store whose identifiers are equal terms but
\* distinct objects; Q1 is a QuotedGraph built with G1's identifier object.
G1 == [cls |-> "Graph",       identifier |-> [val |-> "x", obj |-> "id1"]]
G2 == [cls |-> "Graph",       identifier |-> [val |-> "x", obj |-> "id2"]]
G3 == [cls |-> "Graph",       identifier |-> [val |-> "y", obj |-> "id3"]]
Q1 == [cls |-> "QuotedGraph", identifier |-> [val |-> "x", obj |-> "id1"]]
\* A context that is a bare identifier term, not a Graph.
U1 == [cls |-> "URIRef", val |-> "x"]

\* None where a graph is expected (an omitted new_graph, the other side of a
\* comparison), None where an IRI is expected (an omitted uriref).
NoGraph == [cls |-> "NoneType"]
NoRef   == [cls |-> "NoneType"]

Graphs   == {G1, G2, G3, Q1}
Contexts == Graphs \cup {U1}

\* isinstance(c, Graph) / isinstance(c, QuotedGraph); QuotedGraph subclasses Graph.
IsInstance(c, cls) ==
    IF cls = "Graph" THEN c.cls \in {"Graph", "QuotedGraph"}
                     ELSE c.cls = cls

\* x is y, on identifier objects.
Is(x, y) == x.obj = y.obj

\* Graph.__hash__ / Graph.__eq__: a graph is keyed by its identifier's value.
ContextKey(g) == g.identifier.val

\* A stored quad or a triple matches a pattern; None is the wildcard.
Match(t, pattern) == \A i \in 1..3 : pattern[i] = None \/ pattern[i] = t[i]

\* Store.add(triple, context, quoted)
Store_add(st, triple, context, quoted) ==
    st \cup { <<triple[1], triple[2], triple[3], ContextKey(context)>> }

\* Store.addN(quads): every quad goes under its own context.
Store_addN(st, quads) ==
    st \cup { <<q[1], q[2], q[3], ContextKey(q[4])>> : q \in quads }

\* Store.remove(pattern, context)
Store_remove(st, pattern, context) ==
    st \ { q \in st : q[4] = ContextKey(context) /\ Match(q, pattern) }

\* Store.triples(pattern, context): the (triple, context) pairs that match.
Store_triples(st, pattern, context) ==
    { q \in st : q[4] = ContextKey(context) /\ Match(q, pattern) }

(***************************************************************************)
(* Graph and QuotedGraph                                                   *)
(***************************************************************************)
\* _assertnode(*terms): True, or an AssertionError (modelled as FALSE).
assertnode(s, p, o) == IsNode(s) /\ IsNode(p) /\ IsNode(o)

\* An add that does not check the object.
Graph_add_unchecked_object(self, st, triple) ==
    IF IsNode(triple[1]) /\ IsNode(triple[2])
    THEN [store |-> Store_add(st, triple, self, FALSE), exc |-> None, ret |-> self]
    ELSE [store |-> st, exc |-> "AssertionError", ret |-> None]

\* Graph.add(triple): three asserts, then store.add under self; returns self.
Graph_add(self, st, triple) ==
    IF IsNode(triple[1]) /\ IsNode(triple[2]) /\ IsNode(triple[3])
    THEN [store |-> Store_add(st, triple, self, FALSE), exc |-> None, ret |-> self]
    ELSE [store |-> st, exc |-> "AssertionError", ret |-> None]

\* The generator Graph.addN / QuotedGraph.addN hands to store.addN: the quads
\* whose context is an instance of cls with the very identifier object of
\* self, in order, up to the first of them that fails _assertnode.
AddNGenerator(self, quads, cls) ==
    LET Passes(q) == /\ IsInstance(q[4], cls)
                     /\ Is(q[4].identifier, self.identifier)
        Raises(q) == Passes(q) /\ ~assertnode(q[1], q[2], q[3])
        raising   == { i \in 1..Len(quads) : Raises(quads[i]) }
        stop      == IF raising = {} THEN Len(quads) + 1
                     ELSE CHOOSE i \in raising : \A j \in raising : i <= j
    IN  [yielded |-> { quads[i] : i \in { j \in 1..(stop - 1) : Passes(quads[j]) } },
         exc     |-> IF raising = {} THEN None ELSE "AssertionError"]

\* The outcome of store.addN on that generator: all of it is inserted, or,
\* when the generator raises, the part the Store had consumed or nothing.
AddNOutcome(self, st, gen) ==
    [stores  |-> IF gen.exc = None THEN { Store_addN(st, gen.yielded) }
                 ELSE { st, Store_addN(st, gen.yielded) },
     exc     |-> gen.exc,
     ret     |-> IF gen.exc = None THEN self ELSE None,
     yielded |-> gen.yielded]

\* Graph.addN(quads)
Graph_addN(self, st, quads) ==
    AddNOutcome(self, st, AddNGenerator(self, quads, "Graph"))

\* QuotedGraph.addN(quads)
QuotedGraph_addN(self, st, quads) ==
    AddNOutcome(self, st, AddNGenerator(self, quads, "QuotedGraph"))

\* A remove that does not name its context to the Store.
Graph_remove_all_contexts(self, st, pattern) ==
    st \ { q \in st : Match(q, pattern) }

\* Graph.remove(pattern): store.remove(pattern, context=self)
Graph_remove(self, st, pattern) == Store_remove(st, pattern, self)

\* A triples that scans every context of the Store.
Graph_triples_all_contexts(self, st, pattern) ==
    { <<q[1], q[2], q[3]>> : q \in { r \in st : Match(r, pattern) } }

\* Graph.triples(pattern), for a predicate that is a term or None:
\* the triples of store.triples(pattern, context=self).
Graph_triples(self, st, pattern) ==
    { <<q[1], q[2], q[3]>> : q \in Store_triples(st, pattern, self) }

\* Graph.objects / subjects / predicates (unique=False): one value per triple.
Graph_objects(self, st, subject, predicate) ==
    { t[3] : t \in Graph_triples(self, st, <<subject, predicate, None>>) }
Graph_subjects(self, st, predicate, object) ==
    { t[1] : t \in Graph_triples(self, st, <<None, predicate, object>>) }
Graph_predicates(self, st, subject, object) ==
    { t[2] : t \in Graph_triples(self, st, <<subject, None, object>>) }

\* The values value() iterates over, once at most one argument is None.
ValueCandidates(self, st, subject, predicate, object) ==
    IF predicate = None THEN Graph_predicates(self, st, subject, object)
    ELSE IF subject = None THEN Graph_subjects(self, st, predicate, object)
    ELSE Graph_objects(self, st, subject, predicate)

\* A lookup that takes the first value whatever any says.
ValueLookup_ignores_any(self, st, subject, predicate, object, default, any) ==
    LET values == ValueCandidates(self, st, subject, predicate, object)
    IN  IF subject # None /\ predicate # None /\ object # None
        THEN { [ret |-> None, exc |-> "UnboundLocalError", scanned |-> FALSE] }
        ELSE IF values = {}
        THEN { [ret |-> default, exc |-> None, scanned |-> TRUE] }
        ELSE { [ret |-> v, exc |-> None, scanned |-> TRUE] : v \in values }

\* The outcomes of value() after its early return.
ValueLookup(self, st, subject, predicate, object, default, any) ==
    LET values == ValueCandidates(self, st, subject, predicate, object)
    IN  IF subject # None /\ predicate # None /\ object # None
        THEN { [ret |-> None, exc |-> "UnboundLocalError", scanned |-> FALSE] }
        ELSE IF values = {}
        THEN { [ret |-> default, exc |-> None, scanned |-> TRUE] }
        ELSE IF any = FALSE /\ Cardinality(values) >= 2
        THEN { [ret |-> None, exc |-> "UniquenessError", scanned |-> TRUE] }
        ELSE { [ret |-> v, exc |-> None, scanned |-> TRUE] : v \in values }

\* A value() whose early return hands back the default.
Graph_value_early_default(self, st, subject, predicate, object, default, any) ==
    IF \/ (subject = None /\ predicate = None)
       \/ (subject = None /\ object = None)
       \/ (predicate = None /\ object = None)
    THEN { [ret |-> default, exc |-> None, scanned |-> FALSE] }
    ELSE ValueLookup(self, st, subject, predicate, object, default, any)

\* Graph.value(subject, predicate, object, default, any): the set of its
\* possible outcomes (the first match depends on the Store's scan order).
Graph_value(self, st, subject, predicate, object, default, any) ==
    IF \/ (subject = None /\ predicate = None)
       \/ (subject = None /\ object = None)
       \/ (predicate = None /\ object = None)
    THEN { [ret |-> None, exc |-> None, scanned |-> FALSE] }
    ELSE ValueLookup(self, st, subject, predicate, object, default, any)

(***************************************************************************)
(* Set algebra                                                             *)
(***************************************************************************)
\* Store.__len__(context)
Store_len(st, context) ==
    Cardinality(Store_triples(st, <<None, None, None>>, context))

\* Graph.__len__ / __iter__ / __contains__
Graph__len__(self, st) == Store_len(st, self)
Graph__iter__(self, st) == Graph_triples(self, st, <<None, None, None>>)
Graph__contains__(self, st, triple) == Graph_triples(self, st, triple) # {}

\* The bindings every graph is constructed with (bind_namespaces="rdflib").
DefaultBindings == { <<"rdf", "rdfns">> }

\* Graph.bind(prefix, namespace) / Graph.namespaces(), on the bindings of a
\* graph.
Graph_bind(bindings, prefix, namespace) == bindings \cup { <<prefix, namespace>> }
Graph_namespaces(bindings) == bindings

\* The identifier a graph constructed without arguments gets: a new term.
NewIdentifier == [val |-> "r", obj |-> "id4"]

\* The classes whose constructor can be called without arguments.
Nullary == {"Graph"}

\* An operand of a set operation, and its result: the graph object, its
\* Store, its prefix bindings, and whether the object was made by the
\* operation.
Operand(g, st, ns) ==
    [graph |-> g, store |-> st, namespaces |-> ns[g], fresh |-> FALSE]

\* A construction that hands back the left operand itself.
Graph_new_in_place(self) == self

\* try: retval = type(self)()  except TypeError: retval = Graph()
\* A new graph object over a new, empty Store of its own.
Graph_new(self) ==
    [graph |-> [cls |-> IF self.graph.cls \in Nullary THEN self.graph.cls
                        ELSE "Graph",
                identifier |-> NewIdentifier],
     store |-> {},
     namespaces |-> DefaultBindings,
     fresh |-> TRUE]

\* for x in triples: retval.add(x)
RECURSIVE AddAll(_, _, _)
AddAll(retval, st, triples) ==
    IF triples = {} THEN st
    ELSE LET x == CHOOSE t \in triples : TRUE
         IN  AddAll(retval, Graph_add(retval, st, x).store, triples \ {x})

\* for prefix, uri in bindings: retval.bind(prefix, uri)
RECURSIVE BindAll(_, _)
BindAll(ns, bindings) ==
    IF bindings = {} THEN ns
    ELSE LET b == CHOOSE c \in bindings : TRUE
         IN  BindAll(Graph_bind(ns, b[1], b[2]), bindings \ {b})

\* A union that leaves out the loop over other.
Graph__add__self_only(self, other) ==
    LET retval == Graph_new(self)
    IN  [retval EXCEPT
            !.namespaces = BindAll(@, Graph_namespaces(self.namespaces)
                                        \cup Graph_namespaces(other.namespaces)),
            !.store = AddAll(retval.graph, @, Graph__iter__(self.graph, self.store))]

\* Graph.__add__(other): the bindings of both operands are bound in retval,
\* then every triple of self and every triple of other is added to it.
Graph__add__(self, other) ==
    LET retval == Graph_new(self)
        first  == AddAll(retval.graph, retval.store,
                         Graph__iter__(self.graph, self.store))
    IN  [retval EXCEPT
            !.namespaces = BindAll(@, Graph_namespaces(self.namespaces)
                                        \cup Graph_namespaces(other.namespaces)),
            !.store = AddAll(retval.graph, first,
                             Graph__iter__(other.graph, other.store))]

\* An intersection that tests the triples of other against other.
Graph__mul__other_only(self, other) ==
    LET retval == Graph_new(self)
    IN  [retval EXCEPT !.store =
            AddAll(retval.graph, @,
                   { x \in Graph__iter__(other.graph, other.store) :
                         Graph__contains__(other.graph, other.store, x) })]

\* Graph.__mul__(other): the triples x of other with x in self.
Graph__mul__(self, other) ==
    LET retval == Graph_new(self)
    IN  [retval EXCEPT !.store =
            AddAll(retval.graph, @,
                   { x \in Graph__iter__(other.graph, other.store) :
                         Graph__contains__(self.graph, self.store, x) })]

\* A difference that keeps the triples found in other.
Graph__sub__kept_in(self, other) ==
    LET retval == Graph_new(self)
    IN  [retval EXCEPT !.store =
            AddAll(retval.graph, @,
                   { x \in Graph__iter__(self.graph, self.store) :
                         Graph__contains__(other.graph, other.store, x) })]

\* Graph.__sub__(other): the triples x of self with x not in other.
Graph__sub__(self, other) ==
    LET retval == Graph_new(self)
    IN  [retval EXCEPT !.store =
            AddAll(retval.graph, @,
                   { x \in Graph__iter__(self.graph, self.store) :
                         ~Graph__contains__(other.graph, other.store, x) })]

\* Graph.__xor__(other): (self - other) + (other - self)
Graph__xor__(self, other) ==
    Graph__add__(Graph__sub__(self, other), Graph__sub__(other, self))

\* A set that removes nothing and checks nothing before it adds.
Graph_set_unchecked(self, st, triple) ==
    LET removed == Graph_remove(self, st, <<triple[1], triple[2], None>>)
        added   == Graph_add(self, removed, triple)
    IN  [store |-> added.store, exc |-> added.exc, ret |-> added.ret]

\* Graph.set(triple): two asserts, then remove((s, p, None)), then
\* add((s, p, o)); returns self.
Graph_set(self, st, triple) ==
    IF triple[1] = None \/ triple[2] = None
    THEN [store |-> st, exc |-> "AssertionError", ret |-> None]
    ELSE LET removed == Graph_remove(self, st, <<triple[1], triple[2], None>>)
             added   == Graph_add(self, removed, triple)
         IN  [store |-> added.store, exc |-> added.exc, ret |-> added.ret]

\* The first loop of isomorphic: every triple of self without a blank node
\* as subject or object is in other.
IsomorphicLoop(self, sst, other, ost) ==
    \A t \in Graph__iter__(self, sst) :
        (t[1] \notin BNodes /\ t[3] \notin BNodes)
            => Graph__contains__(other, ost, t)

\* An isomorphic that looks for the triples of self only.
Graph_isomorphic_self_only(self, sst, other, ost) ==
    IF Graph__len__(self, sst) # Graph__len__(other, ost) THEN FALSE
    ELSE IsomorphicLoop(self, sst, other, ost)

\* Graph.isomorphic(other): the lengths, then the triples of self, then the
\* triples of other.
Graph_isomorphic(self, sst, other, ost) ==
    IF Graph__len__(self, sst) # Graph__len__(other, ost) THEN FALSE
    ELSE IF ~IsomorphicLoop(self, sst, other, ost) THEN FALSE
    ELSE IF ~IsomorphicLoop(other, ost, self, sst) THEN FALSE
    ELSE TRUE

\* The order of identifier terms: terms of one kind compare by value.
IdentifierRank == [x |-> 1, y |-> 2]
Identifier_lt(a, b) == IdentifierRank[a.val] < IdentifierRank[b.val]
Identifier_gt(a, b) == IdentifierRank[a.val] > IdentifierRank[b.val]
Identifier_eq(a, b) == a.val = b.val

\* int(b), for the subtraction of two comparisons.
Int_(b) == IF b THEN 1 ELSE 0

\* Graph.__cmp__ / __eq__ / __lt__ / __le__ / __gt__ / __ge__; other is a
\* Graph, None (NoGraph) or something else.
Graph__cmp__(self, other) ==
    IF other = NoGraph THEN -1
    ELSE IF IsInstance(other, "Graph")
    THEN Int_(Identifier_gt(self.identifier, other.identifier))
             - Int_(Identifier_lt(self.identifier, other.identifier))
    ELSE 1
Graph__eq__(self, other) ==
    IsInstance(other, "Graph") /\ Identifier_eq(self.identifier, other.identifier)
Graph__lt__(self, other) ==
    (other = NoGraph)
        \/ (IsInstance(other, "Graph")
                /\ Identifier_lt(self.identifier, other.identifier))
Graph__le__(self, other) == Graph__lt__(self, other) \/ Graph__eq__(self, other)
Graph__gt__(self, other) ==
    (IsInstance(other, "Graph") /\ Identifier_gt(self.identifier, other.identifier))
        \/ (other # NoGraph)
Graph__ge__(self, other) == Graph__gt__(self, other) \/ Graph__eq__(self, other)

(***************************************************************************)
(* Traversals                                                              *)
(***************************************************************************)
\* The orders in which a generator over the Store can yield the set S.
RECURSIVE Orders(_)
Orders(S) ==
    IF S = {} THEN { <<>> }
    ELSE UNION { { <<x>> \o rest : rest \in Orders(S \ {x}) } : x \in S }

\* self.objects(node, predicate) in transitive_objects,
\* self.subjects(predicate, node) in transitive_subjects.
TransitiveStep(self, st, direction, node, predicate) ==
    IF direction = "objects" THEN Graph_objects(self, st, node, predicate)
                             ELSE Graph_subjects(self, st, predicate, node)

RECURSIVE Transitive(_, _, _, _, _, _)
RECURSIVE TransitiveLoop(_, _, _, _, _, _)

\* A loop that hands each recursive call a copy of remember.
TransitiveLoop_copies_remember(self, st, direction, predicate, order, acc) ==
    IF order = <<>> THEN { acc }
    ELSE UNION {
           TransitiveLoop(self, st, direction, predicate, Tail(order),
                          [acc EXCEPT !.out = @ \o r.out])
           : r \in Transitive(self, st, direction, Head(order), predicate,
                              acc.remember) }

\* for object in self.objects(subject, predicate):
\*     for o in self.transitive_objects(object, predicate, remember): yield o
\* acc holds what has been yielded and the remember dict so far.
TransitiveLoop(self, st, direction, predicate, order, acc) ==
    IF order = <<>> THEN { acc }
    ELSE UNION {
           TransitiveLoop(self, st, direction, predicate, Tail(order),
                          [out |-> acc.out \o r.out, remember |-> r.remember])
           : r \in Transitive(self, st, direction, Head(order), predicate,
                              acc.remember) }

\* The body shared by transitive_objects and transitive_subjects: the
\* possible runs, one for each order in which the Store yields the triples.
Transitive(self, st, direction, node, predicate, remember) ==
    IF node \in remember
    THEN { [out |-> <<>>, remember |-> remember] }
    ELSE UNION {
           TransitiveLoop(self, st, direction, predicate, order,
                          [out |-> <<node>>, remember |-> remember \cup {node}])
           : order \in Orders(TransitiveStep(self, st, direction, node, predicate)) }

\* Graph.transitive_objects(subject, predicate, remember=None)
Graph_transitive_objects(self, st, subject, predicate) ==
    { r.out : r \in Transitive(self, st, "objects", subject, predicate, {}) }

\* Graph.transitive_subjects(predicate, object, remember=None)
Graph_transitive_subjects(self, st, predicate, object) ==
    { r.out : r \in Transitive(self, st, "subjects", object, predicate, {}) }

\* The step functions handed to transitiveClosure: func(arg, graph) yields
\* the objects of arg along p, its subjects along p, or both.
StepFunctions == {"objects", "subjects", "neighbours"}
Func(func, arg, self, st) ==
    CASE func = "objects"    -> Graph_objects(self, st, arg, "p")
      [] func = "subjects"   -> Graph_subjects(self, st, "p", arg)
      [] func = "neighbours" -> Graph_objects(self, st, arg, "p")
                                    \cup Graph_subjects(self, st, "p", arg)

\* The seen argument: None (is_none), or a dict with the given keys.
NoDict  == [is_none |-> TRUE, keys |-> {}]
Dict(S) == [is_none |-> FALSE, keys |-> S]

RECURSIVE Graph_transitiveClosure(_, _, _, _, _, _)
RECURSIVE TransitiveClosureLoop(_, _, _, _, _)

\* A loop that hands each recursive call a copy of seen.
TransitiveClosureLoop_copies_seen(self, st, func, order, acc) ==
    IF order = <<>> THEN { acc }
    ELSE UNION {
           TransitiveClosureLoop(self, st, func, Tail(order),
               [acc EXCEPT !.out = @ \o <<Head(order)>> \o r.out,
                           !.calls = r.calls])
           : r \in Graph_transitiveClosure(self, st, func, Head(order),
                                           acc.seen, acc.calls) }

\* for rt in func(arg, self):
\*     yield rt
\*     for rt_2 in self.transitiveClosure(func, rt, seen): yield rt_2
\* acc holds what has been yielded, the seen dict and the arguments func
\* has been applied to so far.
TransitiveClosureLoop(self, st, func, order, acc) ==
    IF order = <<>> THEN { acc }
    ELSE UNION {
           TransitiveClosureLoop(self, st, func, Tail(order),
               [out   |-> acc.out \o <<Head(order)>> \o r.out,
                seen  |-> r.seen,
                calls |-> r.calls])
           : r \in Graph_transitiveClosure(self, st, func, Head(order),
                                           acc.seen, acc.calls) }

\* Graph.transitiveClosure(func, arg, seen): the possible runs, one for each
\* order in which func yields.  calls is the sequence of nodes func has
\* been applied to.
Graph_transitiveClosure(self, st, func, arg, seen, calls) ==
    IF ~seen.is_none /\ arg \in seen.keys
    THEN { [out |-> <<>>, seen |-> seen, calls |-> calls] }
    ELSE UNION {
           TransitiveClosureLoop(self, st, func, order,
               [out   |-> <<>>,
                seen  |-> Dict((IF seen.is_none THEN {} ELSE seen.keys) \cup {arg}),
                calls |-> Append(calls, arg)])
           : order \in Orders(Func(func, arg, self, st)) }

\* Graph.all_nodes(): set(self.objects()) updated with self.subjects()
Graph_all_nodes(self, st) ==
    Graph_objects(self, st, None, None) \cup Graph_subjects(self, st, None, None)

\* for new_x in order:
\*     if new_x not in discovered and new_x not in visiting: visiting.append(new_x)
RECURSIVE Visit(_, _, _)
Visit(visiting, order, discovered) ==
    IF order = <<>> THEN visiting
    ELSE LET new_x == Head(order)
             seen  == { discovered[i] : i \in 1..Len(discovered) }
                          \cup { visiting[i] : i \in 1..Len(visiting) }
         IN  Visit(IF new_x \notin seen THEN Append(visiting, new_x) ELSE visiting,
                   Tail(order), discovered)

RECURSIVE ConnectedLoop(_, _, _, _)

\* A search that follows the triples from subject to object only.
ConnectedLoop_objects_only(self, st, visiting, discovered) ==
    IF visiting = <<>> THEN { discovered }
    ELSE LET x    == visiting[Len(visiting)]
             rest == SubSeq(visiting, 1, Len(visiting) - 1)
             disc == IF \E i \in 1..Len(discovered) : discovered[i] = x
                     THEN discovered ELSE Append(discovered, x)
         IN  UNION {
               ConnectedLoop(self, st, Visit(rest, objs, disc), disc)
               : objs \in Orders(Graph_objects(self, st, x, None)) }

\* while visiting: x = visiting.pop(); ... : the possible lists discovered,
\* one for each order in which the Store yields the triples.
ConnectedLoop(self, st, visiting, discovered) ==
    IF visiting = <<>> THEN { discovered }
    ELSE LET x    == visiting[Len(visiting)]
             rest == SubSeq(visiting, 1, Len(visiting) - 1)
             disc == IF \E i \in 1..Len(discovered) : discovered[i] = x
                     THEN discovered ELSE Append(discovered, x)
         IN  UNION { UNION {
               ConnectedLoop(self, st,
                             Visit(Visit(rest, objs, disc), subs, disc), disc)
               : subs \in Orders(Graph_subjects(self, st, None, x)) }
               : objs \in Orders(Graph_objects(self, st, x, None)) }

\* Graph.connected(): the values it can return, one for each random start
\* and each order of the Store.
Graph_connected(self, st) ==
    LET all_nodes == Graph_all_nodes(self, st)
    IN  IF all_nodes = {} THEN { FALSE }
        ELSE UNION { { Cardinality(all_nodes) = Len(discovered)
                       : discovered \in ConnectedLoop(self, st, <<start>>, <<>>) }
                     : start \in all_nodes }

(***************************************************************************)
(* Concise Bounded Description                                             *)
(***************************************************************************)
\* subgraph = Graph(): a new graph object over a new, empty Store.
NewTarget ==
    [graph |-> [cls |-> "Graph", identifier |-> NewIdentifier], store |-> {}]

RECURSIVE add_to_cbd(_, _, _, _, _, _)
RECURSIVE CbdLoop(_, _, _, _, _, _)

\* A loop that descends into every blank-node object, probing nothing.
CbdLoop_unguarded(self, st, order, subgraph, run, depth) ==
    IF order = <<>> \/ run.exc # None THEN { run }
    ELSE LET t     == Head(order)
             added == [run EXCEPT !.store = Graph_add(subgraph, @, t).store]
         IN  IF t[3] \in BNodes
             THEN UNION { CbdLoop(self, st, Tail(order), subgraph, deeper, depth)
                          : deeper \in add_to_cbd(self, st, t[3], subgraph, added,
                                                  depth + 1) }
             ELSE CbdLoop(self, st, Tail(order), subgraph, added, depth)

\* for s, p, o in self.triples((uri, None, None)):
\*     subgraph.add((s, p, o))
\*     if type(o) is BNode and (o, None, None) not in subgraph: add_to_cbd(o)
\* The possible runs after the loop over the triples in order.  A run is
\* the Store of subgraph, the exception that ended it (None when it goes
\* on) and the deepest nesting of add_to_cbd so far.
CbdLoop(self, st, order, subgraph, run, depth) ==
    IF order = <<>> \/ run.exc # None THEN { run }
    ELSE LET t     == Head(order)
             added == [run EXCEPT !.store = Graph_add(subgraph, @, t).store]
         IN  IF /\ t[3] \in BNodes
                /\ ~Graph__contains__(subgraph, added.store, <<t[3], None, None>>)
             THEN UNION { CbdLoop(self, st, Tail(order), subgraph, deeper, depth)
                          : deeper \in add_to_cbd(self, st, t[3], subgraph, added,
                                                  depth + 1) }
             ELSE CbdLoop(self, st, Tail(order), subgraph, added, depth)

\* for s, p, o in self.triples((None, RDF.subject, uri)):
\*     for s2, p2, o2 in self.triples((s, None, None)): subgraph.add((s2, p2, o2))
Reifications(self, st, uri, subgraph, sub) ==
    AddAll(subgraph, sub,
           UNION { Graph_triples(self, st, <<t[1], None, None>>)
                   : t \in Graph_triples(self, st, <<None, "rdf:subject", uri>>) })

\* add_to_cbd(uri), the function local to cbd, called at the given nesting
\* depth: the possible runs after the call, one for each order of the
\* Store.  A call nested deeper than MaxDepth ends the run with Python's
\* RecursionError.
add_to_cbd(self, st, uri, subgraph, run, depth) ==
    IF run.exc # None THEN { run }
    ELSE IF depth > MaxDepth
    THEN { [run EXCEPT !.exc = "RecursionError"] }
    ELSE { IF looped.exc # None THEN looped
           ELSE [looped EXCEPT
                    !.store = Reifications(self, st, uri, subgraph, @)]
           : looped \in UNION {
               CbdLoop(self, st, order, subgraph,
                       [run EXCEPT !.depth = IF depth > @ THEN depth ELSE @],
                       depth)
               : order \in Orders(Graph_triples(self, st, <<uri, None, None>>)) } }

\* Graph.cbd(resource, target_graph): the possible results, each the graph
\* returned and its Store, with the exception raised (None when it
\* returns) and the deepest nesting of add_to_cbd.
Graph_cbd(self, st, resource, target_graph) ==
    { [graph |-> target_graph.graph, store |-> run.store,
       exc |-> run.exc, depth |-> run.depth]
      : run \in add_to_cbd(self, st, resource, target_graph.graph,
                           [store |-> target_graph.store, exc |-> None, depth |-> 0],
                           1) }

(***************************************************************************)
(* Skolemization                                                           *)
(***************************************************************************)
\* do_skolemize(bnode, t): the given blank node is skolemized where it is
\* the subject or the object.
do_skolemize(bnode, t, authority, basepath) ==
    << IF t[1] = bnode THEN BNode_skolemize(t[1], authority, basepath) ELSE t[1],
       t[2],
       IF t[3] = bnode THEN BNode_skolemize(t[3], authority, basepath) ELSE t[3] >>

\* do_skolemize2(t): every blank node subject or object is skolemized.
do_skolemize2(t, authority, basepath) ==
    << IF t[1] \in BNodes THEN BNode_skolemize(t[1], authority, basepath) ELSE t[1],
       t[2],
       IF t[3] \in BNodes THEN BNode_skolemize(t[3], authority, basepath) ELSE t[3] >>

\* s.de_skolemize() on a term that equals the given skolem IRI.
URIRef_de_skolemize(uri) ==
    IF is_rdflib_skolem(uri) THEN RDFLibGenid_de_skolemize(uri)
                             ELSE Genid_de_skolemize(uri)

\* do_de_skolemize(uriref, t): the given IRI is replaced where it is the
\* subject or the object.
do_de_skolemize(uriref, t) ==
    << IF t[1] = uriref.val THEN URIRef_de_skolemize(t[1]) ELSE t[1],
       t[2],
       IF t[3] = uriref.val THEN URIRef_de_skolemize(t[3]) ELSE t[3] >>

\* One position of do_de_skolemize2, with the test for a foreign skolem
\* IRI made first.
de_skolemize_term_external_first(term) ==
    IF is_external_skolem(term) THEN Genid_de_skolemize(term)
    ELSE IF is_rdflib_skolem(term) THEN RDFLibGenid_de_skolemize(term)
    ELSE term

\* One position of do_de_skolemize2: a skolem IRI of this system, else a
\* skolem IRI of another system, is replaced by its blank node.
de_skolemize_term(term) ==
    IF is_rdflib_skolem(term) THEN RDFLibGenid_de_skolemize(term)
    ELSE IF is_external_skolem(term) THEN Genid_de_skolemize(term)
    ELSE term

\* do_de_skolemize2(t)
do_de_skolemize2(t) == << de_skolemize_term(t[1]), t[2], de_skolemize_term(t[3]) >>

\* retval = Graph() if new_graph is None else new_graph; a given graph
\* lives in the Store of self, a graph just made is marked fresh.
SkolemTarget(st, new_graph) ==
    IF new_graph = NoGraph
    THEN [graph |-> NewTarget.graph, store |-> NewTarget.store, fresh |-> TRUE]
    ELSE [graph |-> new_graph, store |-> st, fresh |-> FALSE]

\* _process_skolem_tuples(target, func), given the triples func makes of
\* the triples of self: each is added to target.
process_skolem_tuples(target, made) ==
    [target EXCEPT !.store = AddAll(target.graph, target.store, made)]

\* Graph.skolemize(new_graph, bnode, authority, basepath)
Graph_skolemize(self, st, new_graph, bnode, authority, basepath) ==
    LET retval == SkolemTarget(st, new_graph)
    IN  IF bnode = None
        THEN process_skolem_tuples(retval,
                 { do_skolemize2(t, authority, basepath) : t \in Graph__iter__(self, st) })
        ELSE IF bnode \in BNodes
        THEN process_skolem_tuples(retval,
                 { do_skolemize(bnode, t, authority, basepath) : t \in Graph__iter__(self, st) })
        ELSE retval

\* Graph.de_skolemize(new_graph, uriref)
Graph_de_skolemize(self, st, new_graph, uriref) ==
    LET retval == SkolemTarget(st, new_graph)
    IN  IF uriref = NoRef
        THEN process_skolem_tuples(retval,
                 { do_de_skolemize2(t) : t \in Graph__iter__(self, st) })
        ELSE IF uriref.cls \in {"Genid", "RDFLibGenid"}
        THEN process_skolem_tuples(retval,
                 { do_de_skolemize(uriref, t) : t \in Graph__iter__(self, st) })
        ELSE retval

(***************************************************************************)
(* Dataset (src/rdflib/dataset.py)                                         *)
(***************************************************************************)
\* What class Dataset defines; it names no base class, so everything else
\* comes from object.
DatasetMethods ==
    { "__init__", "__getnewargs__", "__str__", "__reduce__", "__getstate__",
      "__setstate__", "add_named_graph", "has_named_graph",
      "remove_named_graph", "get_named_graph", "replace_named_graph", "parse",
      "graphs", "triples", "quads", "default_graph", "__iter__" }

\* The attributes __init__ assigns after the call to super().__init__.
DatasetAttrs ==
    { "base", "_Dataset__store", "_Dataset__namespace_manager",
      "_bind_namespaces", "context_aware", "formula_aware" }

\* self.name resolves: an instance attribute or an attribute of the class.
HasAttr(self, name) == name \in self.attrs \cup DatasetMethods

\* super(Dataset, self).__init__(**kwargs), which is object.__init__ on an
\* instance of a class that overrides __init__: TypeError when arguments
\* are passed.
object__init__(kwargs) == IF kwargs = {} THEN None ELSE "TypeError"

\* Store.add_graph(graph, identifier): the name is registered once.
Store_add_graph(graphs, graph, identifier) == graphs \cup {identifier}

\* Dataset.__init__(store): the object when it returns, and the exception.
Dataset__init__(store_arg) ==
    IF object__init__({"store", "identifier"}) # None
    THEN [self |-> NoDataset, exc |-> object__init__({"store", "identifier"})]
    ELSE LET self == [exists |-> TRUE, attrs |-> DatasetAttrs, graphs |-> {}]
         IN  IF ~HasAttr(self, "store")
             THEN [self |-> NoDataset, exc |-> "AttributeError"]
             ELSE [self |-> self, exc |-> None]

\* BNode(): the blank node add_named_graph makes for a graph without a name.
NewBNode == "n1"

\* Dataset.add_named_graph(graph, identifier, base)
Dataset_add_named_graph(self, graph, identifier, base) ==
    IF identifier = None /\ ~HasAttr(self, "bind")
    THEN [self |-> self, exc |-> "AttributeError", ret |-> None, name |-> None]
    ELSE LET name == IF identifier = None
                     THEN BNode_skolemize(NewBNode, None, None)
                     ELSE identifier
         IN  IF ~HasAttr(self, "store")
             THEN [self |-> self, exc |-> "AttributeError", ret |-> None, name |-> name]
             ELSE [self |-> [self EXCEPT !.graphs = Store_add_graph(@, graph, name)],
                   exc |-> None, ret |-> graph, name |-> name]

\* Dataset.graphs(triple)
Dataset_graphs(self) == [exc |-> "NotImplementedError", ret |-> None]

(***************************************************************************)
(* Graph operations as steps                                               *)
(***************************************************************************)
\* What a step on the triples of a graph leaves alone: the BatchAddGraph
\* and the prefix bindings.
DatasetFrame == UNCHANGED <<bag, addN_calls, scope, hist, namespaces>>
BatchFrame == DatasetFrame /\ UNCHANGED dataset

\* The arguments the steps draw from.
AddArgs    == Triples \cup MalformedTriples
AddNFirst  == { <<"a", "p", "b", c>> : c \in Contexts }
AddNSecond == { <<"b", "q", "a", c>> : c \in Contexts }
                  \cup { <<"b", "q", NotANode, c>> : c \in {G1, G3, Q1} }
Defaults   == {None, "dflt"}

Fits(st) == Cardinality(st) <= MaxStore

\* The contexts of the Store, by key.
ContextKeys == { ContextKey(g) : g \in Graphs }

\* contents after the triples ts were put into the context of graph g.
Put(g, ts) == [contents EXCEPT ![ContextKey(g)] = @ \cup ts]

\* contents after the triples matching pattern were taken out of g's context.
Take(g, pattern) ==
    [contents EXCEPT ![ContextKey(g)] = { t \in @ : ~Match(t, pattern) }]

\* contents after the quads qs were put, each into its own context.
PutQuads(qs) ==
    [k \in ContextKeys |->
        contents[k] \cup { <<q[1], q[2], q[3]>> : q \in { r \in qs : ContextKey(r[4]) = k } }]

\* The caller is between two calls: the last call's record has been dropped.
Idle == [op |-> "idle", self |-> G1, arg |-> None,
         exc |-> None, ret |-> None, pre |-> {}]

\* g.add(triple)
GAdd ==
    /\ last = Idle
    /\ \E self \in {G1, G3} : \E triple \in AddArgs :
        LET r == Graph_add(self, store, triple)
        IN  /\ Fits(r.store)
            /\ store' = r.store
            /\ contents' = IF r.exc = None THEN Put(self, {triple}) ELSE contents
            /\ last' = [op |-> "add", self |-> self, arg |-> triple,
                        exc |-> r.exc, ret |-> r.ret, pre |-> store]
            /\ BatchFrame

\* g.addN(quads) on a Graph
GAddN ==
    /\ last = Idle
    /\ \E q1 \in AddNFirst : \E q2 \in AddNSecond :
        LET r == Graph_addN(G1, store, <<q1, q2>>)
        IN  \E st \in r.stores :
              /\ Fits(st)
              /\ store' = st
              /\ contents' = IF r.exc = None \/ st # store
                               THEN PutQuads(r.yielded)
                               ELSE contents
              /\ last' = [op |-> "addN", self |-> G1, arg |-> <<q1, q2>>,
                          exc |-> r.exc, ret |-> r.ret, pre |-> store]
              /\ BatchFrame

\* q.addN(quads) on a QuotedGraph
QAddN ==
    /\ last = Idle
    /\ \E q1 \in AddNFirst : \E q2 \in AddNSecond :
        LET r == QuotedGraph_addN(Q1, store, <<q1, q2>>)
        IN  \E st \in r.stores :
              /\ Fits(st)
              /\ store' = st
              /\ contents' = IF r.exc = None \/ st # store
                               THEN PutQuads(r.yielded)
                               ELSE contents
              /\ last' = [op |-> "addN", self |-> Q1, arg |-> <<q1, q2>>,
                          exc |-> r.exc, ret |-> r.ret, pre |-> store]
              /\ BatchFrame

\* g.remove(pattern)
GRemove ==
    /\ last = Idle
    /\ \E self \in {G1, G3} : \E pattern \in Patterns :
        /\ store' = Graph_remove(self, store, pattern)
        /\ contents' = Take(self, pattern)
        /\ last' = [op |-> "remove", self |-> self, arg |-> pattern,
                    exc |-> None, ret |-> self, pre |-> store]
        /\ BatchFrame

\* g.triples(pattern), the generator run to its end
GTriples ==
    /\ last = Idle
    /\ \E self \in {G1, G2, G3} : \E pattern \in Patterns :
        /\ last' = [op |-> "triples", self |-> self, arg |-> pattern,
                    exc |-> None,
                    ret |-> Graph_triples(self, store, pattern),
                    pre |-> store]
        /\ UNCHANGED <<store, contents>>
        /\ BatchFrame

\* The operands of the set-algebra steps: two graphs with contexts of their
\* own, a QuotedGraph on the left, two graphs over one context.
OperandPairs == { <<G1, G3>>, <<G3, G1>>, <<Q1, G3>>, <<G1, G2>> }

\* self op other, for op one of + * - ^
SetOperation(op, self, other) ==
    CASE op = "+" -> Graph__add__(self, other)
      [] op = "*" -> Graph__mul__(self, other)
      [] op = "-" -> Graph__sub__(self, other)
      [] op = "^" -> Graph__xor__(self, other)

\* g + h, g * h, g - h, g ^ h on two graphs of the Store
GAlgebra ==
    /\ last = Idle
    /\ \E pair \in OperandPairs : \E op \in {"+", "*", "-", "^"} :
        LET r == SetOperation(op, Operand(pair[1], store, namespaces),
                                  Operand(pair[2], store, namespaces))
        IN  /\ store' = IF r.fresh THEN store ELSE r.store
            /\ last' = [op |-> op, self |-> pair[1], arg |-> pair[2],
                        exc |-> None, ret |-> r, pre |-> store]
            /\ UNCHANGED contents
            /\ BatchFrame

\* The bindings the callers make: one prefix on each of two graphs.
BindArgs == { <<G1, "ex", "ns1">>, <<G3, "foaf", "ns2">> }

\* g.bind(prefix, namespace)
GBind ==
    /\ last = Idle
    /\ \E a \in BindArgs :
        /\ a[1] \in DOMAIN namespaces
        /\ <<a[2], a[3]>> \notin namespaces[a[1]]
        /\ namespaces' = [namespaces EXCEPT
                              ![a[1]] = Graph_bind(@, a[2], a[3])]
    /\ UNCHANGED <<store, contents, last, dataset>>
    /\ UNCHANGED <<bag, addN_calls, scope, hist>>

\* g.value(subject, predicate, object, default, any)
GValue ==
    /\ last = Idle
    /\ \E pattern \in Patterns : \E default \in Defaults : \E any \in BOOLEAN :
        \E r \in Graph_value(G1, store, pattern[1], pattern[2], pattern[3],
                             default, any) :
            /\ last' = [op |-> "value", self |-> G1,
                        arg |-> [pattern |-> pattern, default |-> default,
                                 any |-> any, scanned |-> r.scanned],
                        exc |-> r.exc, ret |-> r.ret, pre |-> store]
            /\ UNCHANGED <<store, contents>>
            /\ BatchFrame

\* The triples the callers set: well-formed ones, malformed ones, one
\* without a subject.
SetArgs == AddArgs \cup { <<None, "p", "a">> }

\* contents after g.set(triple) ended with exception exc.
SetContents(g, triple, exc) ==
    IF triple[1] = None \/ triple[2] = None THEN contents
    ELSE [contents EXCEPT ![ContextKey(g)] =
              { t \in @ : ~Match(t, <<triple[1], triple[2], None>>) }
                  \cup (IF exc = None THEN {triple} ELSE {})]

\* g.set(triple)
GSet ==
    /\ last = Idle
    /\ \E self \in {G1, G3} : \E triple \in SetArgs :
        LET r == Graph_set(self, store, triple)
        IN  /\ Fits(r.store)
            /\ store' = r.store
            /\ contents' = SetContents(self, triple, r.exc)
            /\ last' = [op |-> "set", self |-> self, arg |-> triple,
                        exc |-> r.exc, ret |-> r.ret, pre |-> store]
            /\ BatchFrame

\* g.isomorphic(h) on two graphs of the Store
GIsomorphic ==
    /\ last = Idle
    /\ \E pair \in OperandPairs :
        /\ last' = [op |-> "isomorphic", self |-> pair[1], arg |-> pair[2],
                    exc |-> None,
                    ret |-> Graph_isomorphic(pair[1], store, pair[2], store),
                    pre |-> store]
        /\ UNCHANGED <<store, contents>>
        /\ BatchFrame

\* What a graph is compared with: a graph, None, a term.
Comparands == Graphs \cup {NoGraph, U1}

\* g < h, g == h, g > h, g <= h, g >= h, and h < g
GCompare ==
    /\ last = Idle
    /\ \E self \in Graphs : \E other \in Comparands :
        /\ last' = [op |-> "compare", self |-> self, arg |-> other,
                    exc |-> None,
                    ret |-> [lt |-> Graph__lt__(self, other),
                             eq |-> Graph__eq__(self, other),
                             gt |-> Graph__gt__(self, other),
                             le |-> Graph__le__(self, other),
                             ge |-> Graph__ge__(self, other),
                             cmp |-> Graph__cmp__(self, other),
                             swapped_lt |-> IF IsInstance(other, "Graph")
                                            THEN Graph__lt__(other, self)
                                            ELSE FALSE],
                    pre |-> store]
        /\ UNCHANGED <<store, contents>>
        /\ BatchFrame

\* The caller has looked at the outcome of the call and goes on.
Return ==
    /\ last # Idle
    /\ last' = Idle
    /\ UNCHANGED <<store, contents>>
    /\ BatchFrame

GraphInit ==
    /\ store = {}
    /\ contents = [k \in ContextKeys |-> {}]
    /\ last = Idle
    /\ namespaces = [g \in Graphs |-> DefaultBindings]
    /\ dataset = NoDataset

BatchIdle ==
    /\ bag = BatchAddGraph_init(WrappedGraph, MinBatchSize)
    /\ addN_calls = <<>>
    /\ scope = "out"
    /\ hist = [op |-> "init"]

Init == GraphInit /\ BatchIdle

Next ==
    \/ GAdd \/ GAddN \/ QAddN \/ GRemove \/ GTriples \/ GValue
    \/ GAlgebra
    \/ GSet \/ GIsomorphic \/ GCompare
    \/ Return

Spec == Init /\ [][Next]_vars

\* The triples of the graphs that are walked: edges along p between the
\* walk nodes, and two triples with another predicate.
WalkTriples ==
    (WalkNodes \X {"p"} \X WalkNodes) \cup { <<"a", "q", "c">>, <<"c", "q", "d">> }

\* g.add(triple) while the graph to walk is built
WAdd ==
    /\ last = Idle
    /\ Cardinality(store) < MaxWalk
    /\ \E triple \in WalkTriples :
        LET r == Graph_add(G1, store, triple)
        IN  /\ r.exc = None
            /\ store' = r.store
            /\ contents' = Put(G1, {triple})
    /\ UNCHANGED last
    /\ BatchFrame

\* g.transitive_objects(subject, predicate), the generator run to its end
WTransitiveObjects ==
    /\ last = Idle
    /\ \E subject \in WalkNodes : \E predicate \in {"p", None} :
       \E out \in Graph_transitive_objects(G1, store, subject, predicate) :
        /\ last' = [op |-> "transitive_objects", self |-> G1,
                    arg |-> [start |-> subject, predicate |-> predicate],
                    exc |-> None, ret |-> out, pre |-> store]
        /\ UNCHANGED <<store, contents>>
        /\ BatchFrame

\* g.transitive_subjects(predicate, object), the generator run to its end
WTransitiveSubjects ==
    /\ last = Idle
    /\ \E object \in WalkNodes : \E predicate \in {"p", None} :
       \E out \in Graph_transitive_subjects(G1, store, predicate, object) :
        /\ last' = [op |-> "transitive_subjects", self |-> G1,
                    arg |-> [start |-> object, predicate |-> predicate],
                    exc |-> None, ret |-> out, pre |-> store]
        /\ UNCHANGED <<store, contents>>
        /\ BatchFrame

\* g.transitiveClosure(func, arg), the generator run to its end
WTransitiveClosure ==
    /\ last = Idle
    /\ \E func \in StepFunctions : \E arg \in WalkNodes :
       \E r \in Graph_transitiveClosure(G1, store, func, arg, NoDict, <<>>) :
        /\ last' = [op |-> "transitiveClosure", self |-> G1,
                    arg |-> [func |-> func, start |-> arg, calls |-> r.calls],
                    exc |-> None, ret |-> r.out, pre |-> store]
        /\ UNCHANGED <<store, contents>>
        /\ BatchFrame

\* g.connected()
WConnected ==
    /\ last = Idle
    /\ \E r \in Graph_connected(G1, store) :
        /\ last' = [op |-> "connected", self |-> G1, arg |-> None,
                    exc |-> None, ret |-> r, pre |-> store]
        /\ UNCHANGED <<store, contents>>
        /\ BatchFrame

NextWalk ==
    \/ WAdd
    \/ WTransitiveObjects \/ WTransitiveSubjects \/ WTransitiveClosure
    \/ WConnected
    \/ Return

\* A graph that is built and then walked.
SpecWalk == Init /\ [][NextWalk]_vars

\* The triples of the graphs that are described: a resource r with a blank
\* node o1, a statement node x that reifies, blank nodes below x.
CbdTriples ==
    { <<"r", "p1", "o1">>, <<"o1", "p2", "o3">>,
      <<"x", "rdf:subject", "r">>, <<"x", "rdf:predicate", "p1">>,
      <<"x", "rdf:object", "o1">>,
      <<"r", "p2", "x">>, <<"x", "rdf:subject", "o1">>,
      <<"x", "p2", "y">>, <<"y", "p2", "o3">>, <<"y", "p2", "o1">>,
      <<"o1", "p2", "y">>, <<"o1", "p1", "o1">>,
      <<"o3", "p1", "r">> }

\* g.add(triple) while the graph to describe is built
CAdd ==
    /\ last = Idle
    /\ Cardinality(store) < MaxCbd
    /\ \E triple \in CbdTriples :
        LET r == Graph_add(G1, store, triple)
        IN  /\ r.exc = None
            /\ store' = r.store
            /\ contents' = Put(G1, {triple})
    /\ UNCHANGED last
    /\ BatchFrame

\* g.cbd(resource), into a new target graph
CCbd ==
    /\ last = Idle
    /\ \E resource \in {"r", "o1"} :
       \E r \in Graph_cbd(G1, store, resource, NewTarget) :
        /\ last' = [op |-> "cbd", self |-> G1, arg |-> resource,
                    exc |-> r.exc, ret |-> r, pre |-> store]
        /\ UNCHANGED <<store, contents>>
        /\ BatchFrame

NextCbd == CAdd \/ CCbd \/ Return

\* A graph that is built and then described.
SpecCbd == Init /\ [][NextCbd]_vars

\* The triples of the graphs that are skolemized.
SkolemTriples ==
    { <<"b", "p", "a">>, <<"a", "q", "b">>, <<"b", "p", "x">>, <<"x", "q", "x">>,
      <<OwnSkolem, "p", "a">>, <<"a", "p", ForeignSkolem>> }

\* g.add(triple) while the graph to skolemize is built
SAdd ==
    /\ last = Idle
    /\ Cardinality(store) < MaxStore
    /\ \E triple \in SkolemTriples :
        LET r == Graph_add(G1, store, triple)
        IN  /\ r.exc = None
            /\ store' = r.store
            /\ contents' = Put(G1, {triple})
    /\ UNCHANGED last
    /\ BatchFrame

\* The blank nodes and the IRIs the callers name: a blank node, a term that
\* is no blank node; a skolem IRI as a plain URIRef, as an RDFLibGenid, a
\* foreign one as a Genid.
BNodeArgs  == {None, "b", "a"}
UriRefArgs == { NoRef,
                [cls |-> "URIRef",      val |-> OwnSkolem],
                [cls |-> "RDFLibGenid", val |-> OwnSkolem],
                [cls |-> "Genid",       val |-> ForeignSkolem] }

\* The graphs the callers pass as new_graph: none, or a graph of the Store
\* that is still empty.
NewGraphArgs == {NoGraph} \cup { g \in {G3} : Graph__len__(g, store) = 0 }

\* What a call on g leaves in the contexts of the Store: the quads the
\* target received.
Received(st) == { <<q[1], q[2], q[3], G3>> : q \in st \ store }

\* g.skolemize(new_graph, bnode, authority, basepath), new_graph another
\* graph of the Store or omitted
SSkolemize ==
    /\ last = Idle
    /\ \E new_graph \in NewGraphArgs : \E bnode \in BNodeArgs :
       \E authority \in Authorities : \E basepath \in Basepaths :
        LET r == Graph_skolemize(G1, store, new_graph, bnode, authority, basepath)
            st == IF new_graph = NoGraph THEN store ELSE r.store
        IN  /\ Fits(st)
            /\ store' = st
            /\ contents' = PutQuads(Received(st))
            /\ last' = [op |-> "skolemize", self |-> G1,
                        arg |-> [new_graph |-> new_graph, bnode |-> bnode,
                                 authority |-> authority, basepath |-> basepath],
                        exc |-> None, ret |-> r, pre |-> store,
                        source |-> Graph__iter__(G1, store),
                        from |-> [chained |-> FALSE]]
            /\ BatchFrame

\* The graphs de_skolemize is called on: g, or the graph the skolemize
\* before it returned.
DeSkolemizeSources ==
    IF last = Idle THEN { [graph |-> G1, store |-> store, from |-> [chained |-> FALSE]] }
    ELSE IF last.op = "skolemize"
    THEN { [graph |-> last.ret.graph, store |-> last.ret.store,
            from |-> [chained |-> TRUE, arg |-> last.arg, source |-> last.source]] }
    ELSE {}

\* h.de_skolemize(new_graph, uriref), new_graph omitted or another graph
\* of the Store of h
SDeSkolemize ==
    \E self \in DeSkolemizeSources :
    \E new_graph \in NewGraphArgs \ {self.graph} : \E uriref \in UriRefArgs :
        LET r == Graph_de_skolemize(self.graph, self.store, new_graph, uriref)
            st == IF new_graph = NoGraph THEN store ELSE r.store
        IN  /\ new_graph # NoGraph => self.store = store
            /\ Fits(st)
            /\ store' = st
            /\ contents' = PutQuads(Received(st))
            /\ last' = [op |-> "de_skolemize", self |-> self.graph,
                        arg |-> [new_graph |-> new_graph, uriref |-> uriref],
                        exc |-> None, ret |-> r, pre |-> store,
                        source |-> Graph__iter__(self.graph, self.store),
                        from |-> self.from]
            /\ BatchFrame

NextSkolem ==
    \/ SAdd
    \/ SSkolemize \/ SDeSkolemize
    \/ Return

\* A graph that is built, skolemized and de-skolemized.
SpecSkolem == Init /\ [][NextSkolem]_vars

\* The arguments of the Dataset steps: the store by plugin name or as an
\* object, the names of the graphs, the base.
StoreArgs   == {"default", "Store"}
GraphNames  == {None, "x", "y"}
Bases       == {None, "base"}

\* ds = Dataset(store)
DConstruct ==
    /\ last = Idle
    /\ \E store_arg \in StoreArgs :
        LET r == Dataset__init__(store_arg)
        IN  /\ dataset' = r.self
            /\ last' = [op |-> "Dataset", self |-> G1, arg |-> store_arg,
                        exc |-> r.exc, ret |-> r.self, pre |-> store]
    /\ UNCHANGED <<store, contents>>
    /\ DatasetFrame

\* Dataset(store).add_named_graph(graph, identifier, base): the call is
\* made on the object the constructor returns, when it returns one.
DAddNamedGraph ==
    /\ last = Idle
    /\ \E store_arg \in StoreArgs : \E graph \in {G1, G3} :
       \E identifier \in GraphNames : \E base \in Bases :
        LET c == Dataset__init__(store_arg)
            r == IF c.exc # None
                 THEN [self |-> c.self, exc |-> c.exc, ret |-> None, name |-> None]
                 ELSE Dataset_add_named_graph(c.self, graph, identifier, base)
        IN  /\ dataset' = r.self
            /\ last' = [op |-> "add_named_graph", self |-> G1,
                        arg |-> [store |-> store_arg, graph |-> graph,
                                 identifier |-> identifier, base |-> base,
                                 name |-> r.name],
                        exc |-> r.exc, ret |-> r.ret, pre |-> store]
    /\ UNCHANGED <<store, contents>>
    /\ DatasetFrame

\* Dataset(store).graphs()
DGraphs ==
    /\ last = Idle
    /\ \E store_arg \in StoreArgs :
        LET c == Dataset__init__(store_arg)
            r == IF c.exc # None THEN [exc |-> c.exc, ret |-> None]
                                 ELSE Dataset_graphs(c.self)
        IN  /\ dataset' = c.self
            /\ last' = [op |-> "graphs", self |-> G1, arg |-> store_arg,
                        exc |-> r.exc, ret |-> r.ret, pre |-> store]
    /\ UNCHANGED <<store, contents>>
    /\ DatasetFrame

NextDataset ==
    \/ GAdd
    \/ DConstruct \/ DAddNamedGraph \/ DGraphs
    \/ Return

\* Graphs of a Store are filled while a Dataset is built over it.
SpecDataset == Init /\ [][NextDataset]_vars

\* Graphs whose callers also bind prefixes.
NextNamespaces == GBind \/ GAdd \/ GAlgebra \/ Return

SpecNamespaces == Init /\ [][NextNamespaces]_vars

(***************************************************************************)
(* Properties of BatchAddGraph (checked under SpecBatch).                  *)
(***************************************************************************)
\* The batches graph.addN received since the current scope was entered.
ScopeBatches == SubSeq(addN_calls, hist.mark + 1, Len(addN_calls))

\* A with-scope has just ended normally, with adds only (no reset) inside it.
CleanExit == hist.op = "exit_ok" /\ hist.clean

\* C1 as stated: after k adds in a scope that exits normally, graph.addN has
\* received k \div N automatic flushes of exactly N items and then a final
\* flush of exactly k % N items.
C1_FloorDivFlushes ==
    CleanExit =>
        LET N == bag.batch_size
            k == hist.k
            auto == k \div N
        IN  /\ Len(ScopeBatches) = auto + 1
            /\ \A i \in 1..auto : Len(ScopeBatches[i]) = N
            /\ Len(ScopeBatches[auto + 1]) = k % N

\* C1 amended: add flushes only when the buffer already holds N items, so
\* after k adds in a scope that exits normally graph.addN has received
\* (k - 1) \div N automatic flushes of exactly N items (none for k = 0) and a
\* final flush of the k - N * ((k - 1) \div N) items left: k % N when k is
\* not a multiple of N, N when k is a positive multiple of N, 0 when k = 0.
C1_FlushesOfFullBuffers ==
    CleanExit =>
        LET N == bag.batch_size
            k == hist.k
            auto == IF k = 0 THEN 0 ELSE (k - 1) \div N
            rest == k - N * auto
        IN  /\ Len(ScopeBatches) = auto + 1
            /\ \A i \in 1..auto : Len(ScopeBatches[i]) = N
            /\ Len(ScopeBatches[auto + 1]) = rest
            /\ rest = IF k = 0 THEN 0 ELSE IF k % N = 0 THEN N ELSE k % N

\* C1 witness: a scope with k = 2N adds has exited normally after one
\* automatic flush and the final flush.
C1_Witness ==
    /\ CleanExit
    /\ hist.k = 2 * bag.batch_size
    /\ Len(ScopeBatches) = 2

\* C2: count is the number of items passed to add since construction or the
\* last reset; a flush inside add changes nothing but the +1 of that add, and
\* the flush at scope exit leaves count as it was.
C2_CountIsAddsSinceReset ==
    /\ bag.count = hist.n_add
    /\ hist.op = "add" => bag.count = hist.pre.count + 1
    /\ hist.op \in {"exit_ok", "exit_exc"} => bag.count = hist.pre.count

\* C2 witness: a scope that saw an automatic flush has exited normally and
\* count still covers every add.
C2_Witness ==
    /\ hist.op = "exit_ok"
    /\ hist.clean
    /\ bag.count > bag.batch_size
    /\ Len(ScopeBatches) >= 2

\* C3: add flushes exactly when appending would take the buffer over
\* batch_size; the flush passes the whole buffer to graph.addN and empties it
\* before the new item is appended; the buffer never holds more than
\* batch_size items and holds between 1 and batch_size after every add.
C3_FlushBeforeOverflow ==
    LET N == bag.batch_size
        flushedNow == addN_calls # hist.pre.calls
    IN  /\ Len(bag.batch) <= N
        /\ hist.op = "add" =>
             /\ Len(bag.batch) >= 1
             /\ flushedNow <=> (Len(hist.pre.batch) + 1 > N)
             /\ flushedNow =>
                  /\ addN_calls = Append(hist.pre.calls, hist.pre.batch)
                  /\ Len(bag.batch) = 1
             /\ ~flushedNow =>
                  /\ Len(bag.batch) = Len(hist.pre.batch) + 1
                  /\ SubSeq(bag.batch, 1, Len(hist.pre.batch)) = hist.pre.batch

\* C3 witness: an add found the buffer full, flushed it and holds one item.
C3_Witness ==
    /\ hist.op = "add"
    /\ Len(hist.pre.batch) = bag.batch_size
    /\ Len(addN_calls) = Len(hist.pre.calls) + 1
    /\ Len(bag.batch) = 1

\* What __exit__ itself does: the buffer is passed to graph.addN on a normal
\* exit, and neither passed nor cleared on an exit with an exception.
ExitFlushIffNoException ==
    /\ hist.op = "exit_ok" =>
         addN_calls = Append(hist.pre.calls, hist.pre.batch)
    /\ hist.op = "exit_exc" =>
         /\ addN_calls = hist.pre.calls
         /\ bag.batch = hist.pre.batch

\* C4 as stated: the buffer is flushed at scope exit iff the exit is normal,
\* and the items left in the buffer by an exit with an exception are never
\* delivered to the graph by the wrapper.
C4_StrandedNeverDelivered ==
    /\ ExitFlushIffNoException
    /\ ~hist.stale_delivered

\* C4 amended: __exit__ passes the buffer to graph.addN iff the scope exits
\* without an exception; on an exit with an exception it makes no call and
\* leaves buffer and count as they are, so the undelivered items stay at the
\* head of the buffer until a reset (or re-entering the scope) discards them
\* or a later add on the same wrapper flushes them.
C4_ExitFlushesOnlyOnNormalExit ==
    /\ ExitFlushIffNoException
    /\ hist.op = "exit_exc" => bag.count = hist.pre.count
    /\ hist.stale <= Len(bag.batch)
    /\ hist.op \in {"reset", "enter"} => hist.stale = 0
    /\ hist.stale_delivered => hist.total > bag.batch_size

\* C4 witness: a scope has ended with an exception while items were buffered.
C4_Witness ==
    /\ hist.op = "exit_exc"
    /\ Len(bag.batch) > 0
    /\ hist.stale = Len(bag.batch)

\* C5 as stated: reset clears the buffer and leaves count as it was.
C5_ResetKeepsCount ==
    hist.op = "reset" =>
        /\ bag.batch = <<>>
        /\ bag.count = hist.pre.count

\* C5 amended: reset clears the buffer and sets count to zero (count is the
\* number of adds since construction or the last reset); it makes no call to
\* graph.addN.
C5_ResetZeroesCount ==
    hist.op = "reset" =>
        /\ bag.batch = <<>>
        /\ bag.count = 0
        /\ addN_calls = hist.pre.calls

\* C5 witness: reset was called on a wrapper holding items, with count > 0.
C5_Witness ==
    /\ hist.op = "reset"
    /\ hist.pre.count > 0
    /\ Len(hist.pre.batch) > 0
    /\ bag.count = 0

(***************************************************************************)
(* Properties of Graph over the Store (checked under Spec).                *)
(***************************************************************************)
AnyTriple == <<None, None, None>>

WellFormedQuads(quads) ==
    \A i \in 1..Len(quads) : assertnode(quads[i][1], quads[i][2], quads[i][3])

\* The context c of a quad names the graph g: it is a graph of g's kind (any
\* Graph for a Graph, a QuotedGraph for a QuotedGraph) with an identifier
\* equal to g's.
NamesGraph(c, g) ==
    /\ IsInstance(c, g.cls)
    /\ c.identifier.val = g.identifier.val

\* C8 as stated: g.addN(quads) inserts exactly the quads whose context equals
\* g's identifier, drops the others and raises nothing.
C8_AddNKeepsEqualContext ==
    (last.op = "addN" /\ WellFormedQuads(last.arg)) =>
        /\ last.exc = None
        /\ store = last.pre \cup
             { <<q[1], q[2], q[3], ContextKey(last.self)>> :
                 q \in { last.arg[i] : i \in { j \in 1..Len(last.arg) :
                                                 NamesGraph(last.arg[j][4], last.self) } } }

Ambiguous(pattern) ==
    Cardinality({ i \in 1..3 : pattern[i] = None }) > 1

\* C10 as stated: value() with more than one of subject, predicate, object
\* omitted returns the caller's default, without a query and without raising.
C10_AmbiguousValueIsDefault ==
    (last.op = "value" /\ Ambiguous(last.arg.pattern)) =>
        /\ last.exc = None
        /\ ~last.arg.scanned
        /\ last.ret = last.arg.default

\* C10 amended: value() with more than one of subject, predicate, object
\* omitted returns None, whatever the default, without a query and without
\* raising.
C10_AmbiguousValueIsNone ==
    (last.op = "value" /\ Ambiguous(last.arg.pattern)) =>
        /\ last.exc = None
        /\ ~last.arg.scanned
        /\ last.ret = None

\* C10 witness: value() was called with two arguments omitted and a default
\* other than None, on a graph holding a triple that matches.
C10_Witness ==
    /\ last.op = "value"
    /\ Ambiguous(last.arg.pattern)
    /\ last.arg.default # None
    /\ Graph_triples(last.self, store, last.arg.pattern) # {}

\* The objects the graph of the last call holds for (s, p, *), from what was
\* put into its context.
HeldObjects(s, p) ==
    { t[3] : t \in { u \in contents[ContextKey(last.self)] :
                        Match(u, <<s, p, None>>) } }

\* C11: value(s, p, default=D, any=False) fails with UniquenessError when the
\* graph holds two or more distinct objects for (s, p, *), returns D when it
\* holds none and the single object when it holds exactly one; with any=True
\* it never raises and returns one of the matching objects when there is one
\* (and D when there is none).
C11_ValueUniqueness ==
    (/\ last.op = "value"
     /\ last.arg.pattern[1] # None
     /\ last.arg.pattern[2] # None
     /\ last.arg.pattern[3] = None) =>
        LET objs == HeldObjects(last.arg.pattern[1], last.arg.pattern[2])
        IN  /\ objs = {} => last.exc = None /\ last.ret = last.arg.default
            /\ Cardinality(objs) = 1 => last.exc = None /\ objs = {last.ret}
            /\ (Cardinality(objs) >= 2 /\ ~last.arg.any) =>
                   last.exc = "UniquenessError"
            /\ (Cardinality(objs) >= 2 /\ last.arg.any) =>
                   last.exc = None /\ last.ret \in objs

\* C11 witness: value(s, p, default=D, any=False) with D other than None has
\* raised UniquenessError on a graph holding two objects for (s, p, *).
C11_Witness ==
    /\ last.op = "value"
    /\ ~last.arg.any
    /\ last.arg.default # None
    /\ last.arg.pattern[3] = None
    /\ last.exc = "UniquenessError"
    /\ Cardinality(HeldObjects(last.arg.pattern[1], last.arg.pattern[2])) = 2

\* The set-algebra operators.
SetOperators == {"+", "*", "-", "^"}

\* The triples the graph g holds, from what was put into its context.
Held(g) == contents[ContextKey(g)]

\* The triples the graph returned by the last set operation yields.
ResultTriples == Graph__iter__(last.ret.graph, last.ret.store)

\* C12: the triples of g + h are exactly the set union of the triples of g
\* and of h, and len(g + h) is the size of that union: a triple of both
\* operands is counted once.
C12_AddIsUnion ==
    last.op = "+" =>
        /\ ResultTriples = Held(last.self) \cup Held(last.arg)
        /\ Graph__len__(last.ret.graph, last.ret.store) =
               Cardinality(Held(last.self) \cup Held(last.arg))

\* C12 witness: g + h was taken of two graphs that differ and share a
\* triple, and its length is less than len(g) + len(h).
C12_Witness ==
    /\ last.op = "+"
    /\ Held(last.self) \cap Held(last.arg) # {}
    /\ Held(last.self) # Held(last.arg)
    /\ Graph__len__(last.ret.graph, last.ret.store) <
           Cardinality(Held(last.self)) + Cardinality(Held(last.arg))

\* C13: g * h holds exactly the triples present in both g and h, and so do
\* g * h and h * g hold the same triples.
C13_MulIsIntersection ==
    last.op = "*" =>
        /\ ResultTriples = Held(last.self) \cap Held(last.arg)
        /\ LET swapped == Graph__mul__(Operand(last.arg, store, namespaces),
                                      Operand(last.self, store, namespaces))
           IN  Graph__iter__(swapped.graph, swapped.store) = ResultTriples

\* C13 witness: g * h of two graphs that differ is not empty.
C13_Witness ==
    /\ last.op = "*"
    /\ ResultTriples # {}
    /\ Held(last.self) # Held(last.arg)
    /\ ContextKey(last.self) # ContextKey(last.arg)

\* C14: g - h holds exactly the triples of g that are absent from h.
C14_SubIsDifference ==
    last.op = "-" =>
        ResultTriples = Held(last.self) \ Held(last.arg)

\* C14 witness: g - h is not empty although g and h share a triple.
C14_Witness ==
    /\ last.op = "-"
    /\ ResultTriples # {}
    /\ Held(last.self) \cap Held(last.arg) # {}

\* C15: + - * ^ return a new Graph and leave the triples of both operands
\* as they were; every triple of the result is a triple of an operand, term
\* for term, so a blank node is never renamed and one that both operands
\* use is one node of the result.
C15_OperatorsReturnNewGraph ==
    last.op \in SetOperators =>
        /\ \A g \in Graphs : ~Is(last.ret.graph.identifier, g.identifier)
        /\ last.ret.graph.cls = "Graph"
        /\ \A g \in {last.self, last.arg} :
             /\ Graph__iter__(g, store) = Graph__iter__(g, last.pre)
             /\ Graph__iter__(g, store) = Held(g)
        /\ store = last.pre
        /\ ResultTriples \subseteq Held(last.self) \cup Held(last.arg)
        /\ last.op = "+" =>
             \A t \in Held(last.self) \cup Held(last.arg) : t \in ResultTriples

\* C15 witness: g + h of two graphs that each hold a triple of their own on
\* the same blank node; the result holds both triples.
C15_Witness ==
    /\ last.op = "+"
    /\ \E t1 \in Held(last.self) \ Held(last.arg) :
       \E t2 \in Held(last.arg) \ Held(last.self) :
         /\ \E n \in BNodes : n \in {t1[1], t1[3]} /\ n \in {t2[1], t2[3]}
         /\ {t1, t2} \subseteq ResultTriples

\* C16: every set-algebra operator copies the prefix bindings of both
\* operands into its result: each binding of g or of h is a binding of
\* g op h.
C16_OperatorsCopyBindings ==
    last.op \in SetOperators =>
        (namespaces[last.self] \cup namespaces[last.arg])
            \subseteq Graph_namespaces(last.ret.namespaces)

\* The edges the last transitive_objects / transitive_subjects call walks:
\* the pairs <<from, to>> of the triples put into the graph that carry the
\* predicate of the call (any predicate when it is None), taken from subject
\* to object, or from object to subject for transitive_subjects.
WalkedEdges ==
    LET ts == { t \in Held(last.self) :
                  Match(t, <<None, last.arg.predicate, None>>) }
    IN  IF last.op = "transitive_objects"
        THEN { <<t[1], t[3]>> : t \in ts }
        ELSE { <<t[3], t[1]>> : t \in ts }

\* The nodes reachable from the set S along the edges E, S included.
RECURSIVE Closure(_, _)
Closure(E, S) ==
    LET N == S \cup { e[2] : e \in { f \in E : f[1] \in S } }
    IN  IF N = S THEN S ELSE Closure(E, N)

\* out[k..] continues a depth-first walk along E whose path from the start
\* to the node being expanded is stack: the next node is a successor of the
\* top of the stack, or the top has no successor left to visit and the walk
\* backs up.
RECURSIVE ContinuesDepthFirst(_, _, _, _)
ContinuesDepthFirst(out, E, k, stack) ==
    LET top     == stack[Len(stack)]
        visited == { out[i] : i \in 1..(k - 1) }
        done    == { e[2] : e \in { f \in E : f[1] = top } } \subseteq visited
    IN  IF k > Len(out)
        THEN done /\ (Len(stack) = 1 \/
                      ContinuesDepthFirst(out, E, k, SubSeq(stack, 1, Len(stack) - 1)))
        ELSE IF <<top, out[k]>> \in E /\ out[k] \notin visited
        THEN ContinuesDepthFirst(out, E, k + 1, Append(stack, out[k]))
        ELSE /\ done
             /\ Len(stack) > 1
             /\ ContinuesDepthFirst(out, E, k, SubSeq(stack, 1, Len(stack) - 1))

\* C17: transitive_objects(subject, predicate) and transitive_subjects yield
\* the starting node first and then every node reachable from it along the
\* predicate's edges exactly once, in depth-first order, also when the edges
\* form cycles; the set yielded is the reflexive-transitive closure of the
\* relation from the start.
C17_TransitiveIsDepthFirstClosure ==
    last.op \in {"transitive_objects", "transitive_subjects"} =>
        /\ Len(last.ret) >= 1
        /\ last.ret[1] = last.arg.start
        /\ \A i, j \in 1..Len(last.ret) : last.ret[i] = last.ret[j] => i = j
        /\ { last.ret[i] : i \in 1..Len(last.ret) } =
               Closure(WalkedEdges, {last.arg.start})
        /\ ContinuesDepthFirst(last.ret, WalkedEdges, 2, <<last.arg.start>>)

\* C17 witness: a walk over edges that branch and close a cycle has gone to
\* the end of the first branch before it took the second one.
C17_Witness ==
    /\ last.op = "transitive_objects"
    /\ Len(last.ret) = 3
    /\ <<last.ret[1], last.ret[3]>> \in WalkedEdges
    /\ <<last.ret[1], last.ret[2]>> \in WalkedEdges
    /\ <<last.ret[2], last.ret[1]>> \in WalkedEdges
    /\ <<last.ret[2], last.ret[3]>> \notin WalkedEdges

\* The expansion relation of the step function of the last transitiveClosure
\* call, from the triples put into the graph.
Expansion ==
    LET edges == { <<t[1], t[3]>> : t \in { u \in Held(last.self) : u[2] = "p" } }
    IN  CASE last.arg.func = "objects"    -> edges
          [] last.arg.func = "subjects"   -> { <<e[2], e[1]>> : e \in edges }
          [] last.arg.func = "neighbours" -> edges \cup { <<e[2], e[1]>> : e \in edges }

\* C18: transitiveClosure terminates, also when the expansion relation of
\* the step function has cycles, and applies the step function to each node
\* at most once: to the start and to every node the function yields, once.
C18_ClosureExpandsOnce ==
    last.op = "transitiveClosure" =>
        LET calls == last.arg.calls
        IN  /\ \A i, j \in 1..Len(calls) : calls[i] = calls[j] => i = j
            /\ { calls[i] : i \in 1..Len(calls) } =
                   Closure(Expansion, {last.arg.start})
            /\ \A i \in 1..Len(last.ret) :
                   \E j \in 1..Len(calls) : calls[j] = last.ret[i]

\* C18 witness: a closure over a relation with a cycle has yielded its own
\* start again and a node twice, and came to an end.
C18_Witness ==
    /\ last.op = "transitiveClosure"
    /\ \E i \in 1..Len(last.ret) : last.ret[i] = last.arg.start
    /\ \E i, j \in 1..Len(last.ret) : i # j /\ last.ret[i] = last.ret[j]
    /\ Len(last.arg.calls) >= 3

\* The nodes of the graph of the last call (all subjects and objects) and
\* its subject-object edges taken both ways, from the triples put into it.
HeldNodes == { t[1] : t \in Held(last.self) } \cup { t[3] : t \in Held(last.self) }
HeldLinks ==
    { <<t[1], t[3]>> : t \in Held(last.self) }
        \cup { <<t[3], t[1]>> : t \in Held(last.self) }

\* C19: connected() returns true iff the node set of the graph is not empty
\* and every node is reachable from the start by a traversal over the
\* subject-object edges taken both ways, whatever their predicates; it is
\* false on the empty graph, true on one triple (a, p, b), false on the two
\* triples (a, p, b) and (c, p, d).
C19_ConnectedIsReachability ==
    last.op = "connected" =>
        /\ last.ret =
             (/\ HeldNodes # {}
              /\ \A start \in HeldNodes : Closure(HeldLinks, {start}) = HeldNodes)
        /\ Held(last.self) = {} => last.ret = FALSE
        /\ Held(last.self) = { <<"a", "p", "b">> } => last.ret = TRUE
        /\ Held(last.self) = { <<"a", "p", "b">>, <<"c", "p", "d">> } =>
               last.ret = FALSE

\* C19 witness: connected() has returned false on the two disjoint triples
\* (a, p, b) and (c, p, d).
C19_Witness ==
    /\ last.op = "connected"
    /\ Held(last.self) = { <<"a", "p", "b">>, <<"c", "p", "d">> }
    /\ last.ret = FALSE

\* The blank nodes reached from resource through a chain of blank-node
\* objects of the triples ts.
BNodeChain(ts, resource) ==
    Closure({ <<t[1], t[3]>> : t \in { u \in ts : u[3] \in BNodes } }, {resource})
        \ {resource}

\* C20: cbd(r) into a fresh target graph includes every source triple with
\* subject r, every source triple whose subject is a blank node reached
\* from r through a chain of blank-node objects, and every source triple
\* whose subject x has a triple (x, rdf:subject, r), and holds no triple that
\* is absent from the source.
C20_CbdIncludesDescription ==
    last.op = "cbd" =>
        LET source == Held(last.self)
            r      == last.arg
            result == ResultTriples
        IN  /\ \A t \in source : t[1] = r => t \in result
            /\ \A t \in source : t[1] \in BNodeChain(source, r) => t \in result
            /\ \A t \in source :
                   <<t[1], "rdf:subject", r>> \in source => t \in result
            /\ result \subseteq source

\* The blank nodes of the triples ts, as subjects or objects.
BNodesOf(ts) == ({ t[1] : t \in ts } \cup { t[3] : t \in ts }) \cap BNodes

\* C21: cbd(r) terminates on every finite source graph, also when blank
\* nodes form a cycle or a blank node refers to itself: with the probe "a
\* triple with this subject is already in the subgraph" as its only guard,
\* add_to_cbd is never nested deeper than the resource and the blank nodes
\* of the source, and the call returns.
C21_CbdTerminates ==
    last.op = "cbd" =>
        /\ last.exc = None
        /\ last.ret.depth <= 1 + Cardinality(BNodesOf(Held(last.self)) \ {last.arg})

\* C21 witness: cbd has returned on a source in which a blank node refers
\* to itself and two blank nodes refer to each other.
C21_Witness ==
    /\ last.op = "cbd"
    /\ last.exc = None
    /\ \E t \in ResultTriples : t[1] = t[3] /\ t[1] \in BNodes
    /\ \E t, u \in ResultTriples :
         /\ t[1] # t[3] /\ t[1] = u[3] /\ t[3] = u[1]
         /\ {t[1], t[3]} \subseteq BNodes

\* C22: in the graph cbd returns (fresh target) no blank-node object has a
\* description left out: for every result triple whose object is a blank
\* node b, every source triple with subject b is in the result too, also
\* when the triple came in by the reification rule.
C22_CbdObjectsDescribed ==
    last.op = "cbd" =>
        \A t \in ResultTriples :
            t[3] \in BNodes =>
                \A u \in Held(last.self) : u[1] = t[3] => u \in ResultTriples

(***************************************************************************)
(* Properties of skolemization (checked under SpecSkolem).                 *)
(***************************************************************************)
\* The last call was the de_skolemize() of g.skolemize().de_skolemize(),
\* every argument of both calls left out.
RoundTrip ==
    /\ last.op = "de_skolemize"
    /\ last.from.chained
    /\ last.from.arg = [new_graph |-> NoGraph, bnode |-> None,
                        authority |-> None, basepath |-> None]
    /\ last.arg = [new_graph |-> NoGraph, uriref |-> NoRef]

\* The subjects and objects of a set of triples.
TermsOf(ts) == { t[1] : t \in ts } \cup { t[3] : t \in ts }

\* C23, as claimed: g.skolemize().de_skolemize() under this system's own
\* authority holds exactly the triples of g, whatever g holds.
C23_RoundTripRestoresGraph ==
    RoundTrip => ResultTriples = last.from.source

\* C23, amended: g.skolemize().de_skolemize() under this system's own
\* authority holds exactly the triples of g (as many triples, every blank
\* node restored to itself, every other term untouched) when no subject or
\* object of g is itself a skolem IRI.
C23_RoundTripRestoresBNodes ==
    (/\ RoundTrip
     /\ \A n \in TermsOf(last.from.source) :
            ~is_rdflib_skolem(n) /\ ~is_external_skolem(n))
        => /\ ResultTriples = last.from.source
           /\ Cardinality(ResultTriples) = Cardinality(last.from.source)

C23_Witness ==
    /\ RoundTrip
    /\ \A n \in TermsOf(last.from.source) :
           ~is_rdflib_skolem(n) /\ ~is_external_skolem(n)
    /\ {"b", "x", "a"} \subseteq TermsOf(last.from.source)
    /\ TermsOf(last.source) \cap BNodes = {}
    /\ ResultTriples = last.from.source

\* The term the caller named, and what stands for term n in the result of
\* the last call: its skolem IRI, its blank node.
NamedTerm == IF last.op = "skolemize" THEN last.arg.bnode ELSE last.arg.uriref.val
IsRewriteOf(n, m) ==
    IF last.op = "skolemize" THEN n \in BNodes /\ m \notin BNodes /\ m # n
                             ELSE n \notin BNodes /\ m \in BNodes /\ m # n

\* u is the counterpart of t when every blank node (skolem IRI) may have
\* been rewritten, and when only the named term is rewritten.
Counterpart(t, u) ==
    /\ u[2] = t[2]
    /\ \A i \in {1, 3} : u[i] = t[i] \/ IsRewriteOf(t[i], u[i])
NamedCounterpart(t, u) ==
    /\ u[2] = t[2]
    /\ \A i \in {1, 3} : IF t[i] = NamedTerm THEN IsRewriteOf(t[i], u[i])
                                             ELSE u[i] = t[i]

\* A single term was named: a blank node for skolemize, a skolem IRI for
\* de_skolemize.
SingleTerm ==
    \/ last.op = "skolemize" /\ last.arg.bnode \in BNodes
    \/ last.op = "de_skolemize" /\ last.arg.uriref # NoRef

\* C24: skolemize and de_skolemize write into another graph than the source
\* and leave the source and every other context as they were; the triples
\* of the result are the triples of the source with subjects and objects
\* rewritten and the predicate kept; when a single blank node or skolem IRI
\* is named, only that term is rewritten and every triple of the source has
\* its counterpart in the result.
C24_SkolemizeWritesNewGraph ==
    last.op \in {"skolemize", "de_skolemize"} =>
        /\ last.ret.fresh \/ last.ret.graph # last.self
        /\ last.self \in Graphs => Graph__iter__(last.self, store) = last.source
        /\ { q \in store : q[4] # ContextKey(last.ret.graph) } =
               { q \in last.pre : q[4] # ContextKey(last.ret.graph) }
        /\ \A u \in ResultTriples : \E t \in last.source : Counterpart(t, u)
        /\ SingleTerm =>
               /\ \A t \in last.source : \E u \in ResultTriples : NamedCounterpart(t, u)
               /\ \A u \in ResultTriples : \E t \in last.source : NamedCounterpart(t, u)

(***************************************************************************)
(* Properties of Dataset (checked under SpecDataset).                      *)
(***************************************************************************)
\* The reserved name of the default graph.
DATASET_DEFAULT_GRAPH_ID == "urn:x-rdflib:default"

\* C25: a Dataset has exactly one default graph at all times: Dataset()
\* returns a dataset that holds exactly one graph, the default graph, and
\* after every named-graph operation the dataset still holds the default
\* graph, once.
C25_DatasetHasOneDefaultGraph ==
    /\ last.op = "Dataset" =>
           /\ last.exc = None
           /\ dataset.exists
           /\ dataset.graphs = {DATASET_DEFAULT_GRAPH_ID}
    /\ last.op = "add_named_graph" =>
           /\ dataset.exists
           /\ DATASET_DEFAULT_GRAPH_ID \in dataset.graphs

\* C26: add_named_graph(graph) without an identifier names the graph by a
\* skolem IRI, never by a blank node, registers the name in the Store and
\* returns the graph; with a name the dataset has already, the set of names
\* stays as it was.
C26_AddNamedGraphMintsSkolemIRI ==
    last.op = "add_named_graph" =>
        /\ last.exc = None
        /\ last.ret = last.arg.graph
        /\ last.arg.identifier = None =>
               /\ is_rdflib_skolem(last.arg.name)
               /\ last.arg.name \notin BNodes
        /\ last.arg.name \in dataset.graphs

(***************************************************************************)
(* Properties of isomorphic, set and the comparisons (checked under Spec). *)
(***************************************************************************)
\* The triples of ts with no blank node as subject or object.
Ground(ts) == { t \in ts : t[1] \notin BNodes /\ t[3] \notin BNodes }

\* C27: for graphs without blank nodes, g.isomorphic(h) is true iff g and h
\* hold the same set of triples; for any graphs it is false whenever their
\* lengths differ or a triple without blank nodes of one is missing from
\* the other.
C27_IsomorphicIsEqualityWithoutBNodes ==
    last.op = "isomorphic" =>
        LET g == Held(last.self)
            h == Held(last.arg)
        IN  /\ (Ground(g) = g /\ Ground(h) = h) => (last.ret <=> g = h)
            /\ Cardinality(g) # Cardinality(h) => ~last.ret
            /\ (~(Ground(g) \subseteq h) \/ ~(Ground(h) \subseteq g)) => ~last.ret

C27_Witness ==
    /\ last.op = "isomorphic"
    /\ last.self = G1 /\ last.arg = G3
    /\ Ground(Held(G1)) = Held(G1) /\ Ground(Held(G3)) = Held(G3)
    /\ Held(G1) # {}
    /\ last.ret

\* C28: after g.set((s, p, o)) has returned, (s, p, o) is the only triple of
\* g with subject s and predicate p and every other quad of the Store is as
\* it was; a set whose subject or predicate is None fails with the Store
\* untouched.
C28_SetReplacesObjects ==
    last.op = "set" =>
        LET s == last.arg[1]
            p == last.arg[2]
            Other(st) == { q \in st : ~(/\ q[4] = ContextKey(last.self)
                                        /\ q[1] = s /\ q[2] = p) }
        IN  /\ last.exc = None =>
                /\ Graph_triples(last.self, store, <<s, p, None>>) = {last.arg}
                /\ Other(store) = Other(last.pre)
                /\ last.ret = last.self
            /\ (s = None \/ p = None) =>
                /\ last.exc = "AssertionError"
                /\ store = last.pre

C28_Witness ==
    /\ last.op = "set" /\ last.exc = None
    /\ Cardinality(Graph_triples(last.self, last.pre,
                                 <<last.arg[1], last.arg[2], None>>)) = 2
    /\ \E q \in last.pre : q[4] = ContextKey(last.self) /\ q[2] # last.arg[2]
    /\ Cardinality(store) = 2

\* C30: the comparisons of two Graphs are one consistent order: exactly one
\* of g < h, g == h, g > h holds, and g > h holds iff h < g.
C30_ComparisonsAreConsistent ==
    (last.op = "compare" /\ IsInstance(last.arg, "Graph")) =>
        /\ Int_(last.ret.lt) + Int_(last.ret.eq) + Int_(last.ret.gt) = 1
        /\ last.ret.gt <=> last.ret.swapped_lt

(***************************************************************************)
(* Order of delivery of BatchAddGraph (checked under SpecBatch).           *)
(***************************************************************************)
\* The batches of a sequence of addN calls, one after the other.
RECURSIVE Concatenation(_)
Concatenation(batches) ==
    IF batches = <<>> THEN <<>>
    ELSE Head(batches) \o Concatenation(Tail(batches))

\* The items given to add in the scope, every 3-tuple with the wrapped graph
\* as its context.
ScopeQuads ==
    [i \in 1..Len(hist.items) |->
        IF Len(hist.items[i]) = 3 THEN hist.items[i] \o <<WrappedGraph>>
                                  ELSE hist.items[i]]

\* C29, as claimed: after a with-scope has exited normally, the batches
\* addN received in the scope, one after the other, are the items given to
\* add in the scope, in their order, each once, whatever else was called in
\* the scope.
C29_BatchesAreTheItemsAdded ==
    hist.op = "exit_ok" => Concatenation(ScopeBatches) = ScopeQuads

\* C29, amended: after a with-scope in which reset was not called has exited
\* normally, the batches addN received in the scope (the automatic flushes,
\* then the final flush), one after the other, are the items given to add in
\* the scope, in their order, each once, every 3-tuple with the wrapped
\* graph as its context.
C29_BatchesAreTheItemsAddedWithoutReset ==
    (hist.op = "exit_ok" /\ hist.clean) => Concatenation(ScopeBatches) = ScopeQuads

C29_Witness ==
    /\ hist.op = "exit_ok" /\ hist.clean
    /\ Len(ScopeBatches) >= 2
    /\ Len(hist.items) > bag.batch_size
    /\ \E i, j \in 1..Len(hist.items) : Len(hist.items[i]) = 3 /\ Len(hist.items[j]) = 4
    /\ Concatenation(ScopeBatches) = ScopeQuads

=============================================================================
